---- MODULE Spec2Model ----
(***************************************************************************)
(* Model of the invoice page loop of src/pdf_converter/test.py and of the  *)
(* processors and the main window of the pdf_converter package.            *)
(*                                                                         *)
(* A page's text is a sequence of tokens [k |-> kind, v |-> words].  A     *)
(* token of kind "line" is one line of text: v holds its words, written    *)
(* with one blank between them (an empty word is one blank more); a label  *)
(* such as "Delivery #" is the single word "Delivery#".  Any other kind    *)
(* is one of the literal markers the text is split on.  The text of a     *)
(* page is the texts of its tokens put end to end:                         *)
(*   line   its words, after "\n" when it follows a line or NORET          *)
(*   DATE   " Date\n"             INV    " Invoice #\n"                    *)
(*   CUR    " Currency\n"         REMIT  "\nREMIT PAYMENT  TO\n \n"        *)
(*   TU     "Total Units ", after "\n" when it follows a line              *)
(*   NORET  "\n NO RETURNS ACCEPTED WITHOUT AUTHORIZATION."                *)
(* The words of the lines hold no text of a marker, so the text of a      *)
(* marker stands only where a marker token stands and the page is split    *)
(* on its markers token by token.  Within a line the script is followed    *)
(* character by character: CharsOf spells the words, a separator or a      *)
(* label is searched as a run of characters, a regular expression as a     *)
(* run of character classes, and int() and float() read digits.            *)
(* Python values are records [t |-> type, v |-> characters]: the type tag  *)
(* keeps None, '' and 0.0 apart, and '12.500' (str) apart from 12.5        *)
(* (float).  A str is kept by its characters other than blanks and line    *)
(* ends, an int and a float by the characters of their repr.               *)
(*                                                                         *)
(* Spec runs the loop on documents of up to MaxPages pages, SpecPage on    *)
(* one-page documents drawn from a wider set of page texts, SpecTariff     *)
(* applies the tariff-code extraction to texts given character by          *)
(* character, SpecTwice runs the script twice on the same pages and calls  *)
(* the InvoiceProcessor twice on the same tables and text.                 *)
(*                                                                         *)
(* The package is modelled further down: SpecInvoice is                    *)
(* InvoiceProcessor.transform_to_structured_format, SpecProcess is         *)
(* PDFProcessor.process, SpecWindow is the file queue of the MainWindow    *)
(* with its ProcessingThreads.                                             *)
(***************************************************************************)
EXTENDS Integers, Sequences, FiniteSets, TLC

VARIABLES pages, page_no, pc, err, role, init_page_values, loc,
          block3_other, df, df_summary, cnt, j, rds_idx_offset,
          arg, res, job, window, threads, clock, first_run

(* arg and res hold the input and the result of a function taken on its *)
(* own (a field extraction, a second run, a processor call); the page   *)
(* loop leaves them alone                                               *)
(* job is the ProcessingJob handed to PDFProcessor.process; window holds *)
(* the fields of the MainWindow and threads the ProcessingThreads it has *)
(* started                                                               *)
(* clock is the clock of the machine, the one thing of its surroundings  *)
(* a run could read beside its input; first_run keeps the input and the  *)
(* outcome of the first of two runs on the same input                    *)
vars == <<pages, page_no, pc, err, role, init_page_values, loc,
          block3_other, df, df_summary, cnt, j, rds_idx_offset, arg, res,
          job, window, threads, clock, first_run>>

-----------------------------------------------------------------------------
(* Bounds *)
MaxPages == 3

(* Program constant: cap of the forward search for the last anchor *)
LoopCap == 100

-----------------------------------------------------------------------------
(* Python values *)
Val(t, v) == [t |-> t, v |-> v]
None      == Val("none", <<>>)
Undef     == Val("undef", <<>>)
EmptyStr  == Val("str", <<>>)

-----------------------------------------------------------------------------
(* Sequences *)
RECURSIVE Concat(_)
Concat(ss) ==
    IF ss = <<>> THEN <<>>
    ELSE IF Len(ss) = 1 THEN ss[1]
    ELSE LET h == Len(ss) \div 2
         IN  Concat(SubSeq(ss, 1, h)) \o Concat(SubSeq(ss, h + 1, Len(ss)))

(* Python slice s[a:b], 0-based, clipped to the sequence *)
Slice(s, a, b) ==
    LET lo == IF a < 0 THEN 0 ELSE IF a > Len(s) THEN Len(s) ELSE a
        hi == IF b > Len(s) THEN Len(s) ELSE b
    IN  IF hi <= lo THEN <<>> ELSE SubSeq(s, lo + 1, hi)

Last(s) == s[Len(s)]

Min(S) == CHOOSE x \in S : \A y \in S : x <= y

(* s.split(sep) over a sequence: the parts between the positions where *)
(* the separator stands                                                 *)
SplitAt(s, cuts) ==
    [n \in 1..(Len(cuts) + 1) |->
        SubSeq(s, IF n = 1 THEN 1 ELSE cuts[n - 1] + 1,
                  IF n > Len(cuts) THEN Len(s) ELSE cuts[n] - 1)]

Positions(s, Test(_)) ==
    SelectSeq([i \in 1..Len(s) |-> i], LAMBDA i : Test(s[i]))

(* body(e) with e worked out once *)
Bind(e, Body(_)) == CHOOSE v \in {Body(x) : x \in {e}} : TRUE

-----------------------------------------------------------------------------
(* Characters.  A string of the script is a sequence of one-character    *)
(* strings; CharsOf spells the words of the page texts and of the values *)
(* named in the properties (a label is spelled with its blanks, the      *)
(* date field of ten blanks with its ten blanks).  A word that is not in *)
(* the table is one character that is no digit, no letter and no blank.  *)
Digits == {"0", "1", "2", "3", "4", "5", "6", "7", "8", "9"}
Upper  == {"A", "B", "C", "D", "E", "F", "G", "H", "I", "J", "K", "L", "M",
           "N", "O", "P", "Q", "R", "S", "T", "U", "V", "W", "X", "Y", "Z"}
SP == " "
NL == "\n"

CharsOf ==
    ("Page" :> <<"P", "a", "g", "e">>)
    @@ ("ACME" :> <<"A", "C", "M", "E">>)
    @@ ("500" :> <<"5", "0", "0">>)
    @@ ("MerchandiseTotal" :> <<"M", "e", "r", "c", "h", "a", "n", "d", "i", "s", "e", " ", "T", "o", "t", "a", "l">>)
    @@ ("10000.00" :> <<"1", "0", "0", "0", "0", ".", "0", "0">>)
    @@ ("USD" :> <<"U", "S", "D">>)
    @@ ("250.00" :> <<"2", "5", "0", ".", "0", "0">>)
    @@ ("10250.00" :> <<"1", "0", "2", "5", "0", ".", "0", "0">>)
    @@ ("bank" :> <<"b", "a", "n", "k">>)
    @@ ("OTHER" :> <<"O", "T", "H", "E", "R">>)
    @@ ("13/45/2024" :> <<"1", "3", "/", "4", "5", "/", "2", "0", "2", "4">>)
    @@ ("900000002" :> <<"9", "0", "0", "0", "0", "0", "0", "0", "2">>)
    @@ ("157318-002" :> <<"1", "5", "7", "3", "1", "8", "-", "0", "0", "2">>)
    @@ ("Style" :> <<"S", "t", "y", "l", "e">>)
    @@ ("Qty" :> <<"Q", "t", "y">>)
    @@ ("ML" :> <<"M", "L">>)
    @@ ("HBG" :> <<"H", "B", "G">>)
    @@ ("CN" :> <<"C", "N">>)
    @@ ("CountryofOrigin" :> <<"C", "o", "u", "n", "t", "r", "y", " ", "o", "f", " ", "O", "r", "i", "g", "i", "n">>)
    @@ ("9999.99.9999" :> <<"9", "9", "9", "9", ".", "9", "9", ".", "9", "9", "9", "9">>)
    @@ ("Tariffcode" :> <<"T", "a", "r", "i", "f", "f", " ", "c", "o", "d", "e">>)
    @@ ("0123456789" :> <<"0", "1", "2", "3", "4", "5", "6", "7", "8", "9">>)
    @@ ("Delivery#" :> <<"D", "e", "l", "i", "v", "e", "r", "y", " ", "#">>)
    @@ ("RDSCertified" :> <<"R", "D", "S", " ", "C", "e", "r", "t", "i", "f", "i", "e", "d">>)
    @@ ("10.00" :> <<"1", "0", ".", "0", "0">>)
    @@ ("50.00" :> <<"5", "0", ".", "0", "0">>)
    @@ ("foo" :> <<"f", "o", "o">>)
    @@ ("DUN#123456789" :> <<"D", "U", "N", "#", "1", "2", "3", "4", "5", "6", "7", "8", "9">>)
    @@ ("01/15/2024" :> <<"0", "1", "/", "1", "5", "/", "2", "0", "2", "4">>)
    @@ ("900000001" :> <<"9", "0", "0", "0", "0", "0", "0", "0", "1">>)
    @@ ("Freight" :> <<"F", "r", "e", "i", "g", "h", "t">>)
    @@ ("Invoice" :> <<"I", "n", "v", "o", "i", "c", "e">>)
    @@ ("157317-001" :> <<"1", "5", "7", "3", "1", "7", "-", "0", "0", "1">>)
    @@ ("12" :> <<"1", "2">>)
    @@ ("trim" :> <<"t", "r", "i", "m">>)
    @@ ("120.00" :> <<"1", "2", "0", ".", "0", "0">>)
    @@ ("A1" :> <<"A", "1">>)
    @@ ("A2" :> <<"A", "2">>)
    @@ ("A3" :> <<"A", "3">>)
    @@ ("SOLDTO:" :> <<"S", "O", "L", "D", " ", "T", "O", ":">>)
    @@ ("S1" :> <<"S", "1">>)
    @@ ("S2" :> <<"S", "2">>)
    @@ ("S3" :> <<"S", "3">>)
    @@ ("SHIPTO:" :> <<"S", "H", "I", "P", " ", "T", "O", ":">>)
    @@ ("H1" :> <<"H", "1">>)
    @@ ("H2" :> <<"H", "2">>)
    @@ ("H3" :> <<"H", "3">>)
    @@ ("eur" :> <<"e", "u", "r">>)
    @@ ("12345678" :> <<"1", "2", "3", "4", "5", "6", "7", "8">>)
    @@ ("NET30" :> <<"N", "E", "T", "3", "0">>)
    @@ ("Terms" :> <<"T", "e", "r", "m", "s">>)
    @@ ("700000001" :> <<"7", "0", "0", "0", "0", "0", "0", "0", "1">>)
    @@ ("No.ofCartons" :> <<"N", "o", ".", " ", "o", "f", " ", "C", "a", "r", "t", "o", "n", "s">>)
    @@ ("PO55" :> <<"P", "O", "5", "5">>)
    @@ ("CustomerPO" :> <<"C", "u", "s", "t", "o", "m", "e", "r", " ", "P", "O">>)
    @@ ("NetWeight:" :> <<"N", "e", "t", " ", "W", "e", "i", "g", "h", "t", " ", ":">>)
    @@ ("12.500" :> <<"1", "2", ".", "5", "0", "0">>)
    @@ ("KG" :> <<"K", "G">>)
    @@ ("13.250" :> <<"1", "3", ".", "2", "5", "0">>)
    @@ ("LB" :> <<"L", "B">>)
    @@ ("GrossWeight:" :> <<"G", "r", "o", "s", "s", " ", "W", "e", "i", "g", "h", "t", " ", ":">>)
    @@ ("note" :> <<"n", "o", "t", "e">>)
    @@ ("pending" :> <<"p", "e", "n", "d", "i", "n", "g">>)
    @@ ("2024-01-15" :> <<"2", "0", "2", "4", "-", "0", "1", "-", "1", "5">>)
    @@ ("          " :> <<" ", " ", " ", " ", " ", " ", " ", " ", " ", " ">>)
    @@ ("ref" :> <<"r", "e", "f">>)
    @@ ("many" :> <<"m", "a", "n", "y">>)
    @@ ("Name" :> <<"N", "a", "m", "e">>)
    @@ ("hbg" :> <<"h", "b", "g">>)
    @@ ("cn" :> <<"c", "n">>)
    @@ ("lining" :> <<"l", "i", "n", "i", "n", "g">>)
    @@ ("Total" :> <<"T", "o", "t", "a", "l">>)
    @@ ("Units" :> <<"U", "n", "i", "t", "s">>)
    @@ ("NO" :> <<"N", "O">>)
    @@ ("RETURNS" :> <<"R", "E", "T", "U", "R", "N", "S">>)
    @@ ("ACCEPTED" :> <<"A", "C", "C", "E", "P", "T", "E", "D">>)
    @@ ("WITHOUT" :> <<"W", "I", "T", "H", "O", "U", "T">>)
    @@ ("AUTHORIZATION." :> <<"A", "U", "T", "H", "O", "R", "I", "Z", "A", "T", "I", "O", "N", ".">>)
    @@ ("AUTHORIZATION.Total" :> <<"A", "U", "T", "H", "O", "R", "I", "Z", "A", "T", "I", "O", "N", ".", "T", "o", "t", "a", "l">>)
    @@ ("REMIT" :> <<"R", "E", "M", "I", "T">>)
    @@ ("PAYMENT" :> <<"P", "A", "Y", "M", "E", "N", "T">>)
    @@ ("TO" :> <<"T", "O">>)
    @@ ("Date" :> <<"D", "a", "t", "e">>)
    @@ ("Currency" :> <<"C", "u", "r", "r", "e", "n", "c", "y">>)
    @@ ("Size" :> <<"S", "i", "z", "e">>)
    @@ ("123456789" :> <<"1", "2", "3", "4", "5", "6", "7", "8", "9">>)
    @@ ("EUR" :> <<"E", "U", "R">>)
    @@ ("02/29/2024" :> <<"0", "2", "/", "2", "9", "/", "2", "0", "2", "4">>)
    @@ ("02/30/2023" :> <<"0", "2", "/", "3", "0", "/", "2", "0", "2", "3">>)
    @@ ("2024-02-29" :> <<"2", "0", "2", "4", "-", "0", "2", "-", "2", "9">>)
    @@ ("9999-12-31" :> <<"9", "9", "9", "9", "-", "1", "2", "-", "3", "1">>)
    @@ ("0.0" :> <<"0", ".", "0">>)
    @@ ("10000.0" :> <<"1", "0", "0", "0", "0", ".", "0">>)
    @@ ("250.0" :> <<"2", "5", "0", ".", "0">>)
    @@ ("10250.0" :> <<"1", "0", "2", "5", "0", ".", "0">>)
    @@ ("157317" :> <<"1", "5", "7", "3", "1", "7">>)
    @@ ("157318" :> <<"1", "5", "7", "3", "1", "8">>)
    @@ ("87654321" :> <<"8", "7", "6", "5", "4", "3", "2", "1">>)
    @@ ("9999" :> <<"9", "9", "9", "9">>)
    @@ ("01" :> <<"0", "1">>)
    @@ ("13" :> <<"1", "3">>)
Spelling(w) ==
    IF w = "" THEN <<>>
    ELSE IF w \in DOMAIN CharsOf THEN CharsOf[w] ELSE <<w>>

(* ' '.join(ws) *)
Chars(ws) ==
    Concat([i \in 1..Len(ws) |->
               IF i = 1 THEN Spelling(ws[i]) ELSE <<SP>> \o Spelling(ws[i])])

(* the characters of a string that are no white space: two values are *)
(* told apart by these                                                *)
NoBlanks(cs) == SelectSeq(cs, LAMBDA c : c \notin {SP, NL})

(* a str of the script given by its characters, and by its words *)
StrC(cs) == Val("str", NoBlanks(cs))
Str(p)   == StrC(Chars(p))
IntV(w)   == Val("int", Spelling(w))
FloatV(w) == Val("float", Spelling(w))

(* s.strip() *)
StripChars(cs) ==
    LET solid == Positions(cs, LAMBDA c : c # SP)
    IN  IF solid = <<>> THEN <<>> ELSE SubSeq(cs, solid[1], Last(solid))

(* s.find(pat) + 1: the place of the first occurrence of pat in cs, 0 *)
(* when there is none                                                 *)
FindC(cs, pat) ==
    LET hits == {p \in 1..(Len(cs) - Len(pat) + 1) :
                    \A k \in 1..Len(pat) : cs[p + k - 1] = pat[k]}
    IN  IF hits = {} THEN 0 ELSE Min(hits)

(* pat in s *)
InC(cs, pat) == FindC(cs, pat) # 0

(* s.split(pat) *)
RECURSIVE SplitC(_, _)
SplitC(cs, pat) ==
    Bind(FindC(cs, pat), LAMBDA p :
        IF p = 0 THEN <<cs>>
        ELSE <<SubSeq(cs, 1, p - 1)>>
             \o SplitC(SubSeq(cs, p + Len(pat), Len(cs)), pat))

(* s.replace(pat, '') *)
RemoveC(cs, pat) == Concat(SplitC(cs, pat))

(* A regular expression without repetition is the sequence of the      *)
(* character classes of its characters                                 *)
Rep(n, class) == [k \in 1..n |-> class]

MatchAt(cs, p, pat) ==
    /\ p + Len(pat) - 1 <= Len(cs)
    /\ \A k \in 1..Len(pat) : cs[p + k - 1] \in pat[k]

(* re.search(pat, cs): the start of the leftmost match, 0 for no match *)
SearchAt(cs, pat) ==
    LET hits == {p \in 1..Len(cs) : MatchAt(cs, p, pat)}
    IN  IF hits = {} THEN 0 ELSE Min(hits)

(* m.group(1) if m else None, the group being the last n characters of *)
(* the match                                                           *)
CapturedTail(cs, pat, n) ==
    Bind(SearchAt(cs, pat), LAMBDA p :
        IF p = 0 THEN None
        ELSE StrC(SubSeq(cs, p + Len(pat) - n, p + Len(pat) - 1)))

Captured(cs, pat) == CapturedTail(cs, pat, Len(pat))

(* r'(\d{9})', r'(\d{8})', r'([A-Z]{3})', r'([A-Z]{2})', r'\d{6}-\d{3}', *)
(* r'(\d{2}/\d{2}/\d{4})', r'DUN#(\d{9})'                                *)
NineDigits   == Rep(9, Digits)
EightDigits  == Rep(8, Digits)
ThreeUpper   == Rep(3, Upper)
TwoUpper     == Rep(2, Upper)
StylePattern == Rep(6, Digits) \o <<{"-"}>> \o Rep(3, Digits)
DatePattern  == Rep(2, Digits) \o <<{"/"}>> \o Rep(2, Digits) \o <<{"/"}>>
                \o Rep(4, Digits)
DunPattern   == <<{"D"}, {"U"}, {"N"}, {"#"}>> \o Rep(9, Digits)

(* the end of the run of digits that starts at p *)
DigitsEnd(cs, p) ==
    Min({q \in p..Len(cs) : q = Len(cs) \/ cs[q + 1] \notin Digits})

(* r'(\d+\.\d{3})': digits, then a point and three digits *)
WeightAt(cs, p) ==
    /\ cs[p] \in Digits
    /\ MatchAt(cs, DigitsEnd(cs, p) + 1, <<{"."}>> \o Rep(3, Digits))

Weight(cs) ==
    LET hits == {p \in 1..Len(cs) : WeightAt(cs, p)}
    IN  IF hits = {} THEN None
        ELSE StrC(SubSeq(cs, Min(hits), DigitsEnd(cs, Min(hits)) + 4))

(* int(s): blanks around one or more digits; the numeral has no leading *)
(* zero.  (A sign and '_' between digits are accepted by int too; no    *)
(* word of the page texts has them.)                                    *)
IsIntC(cs) ==
    /\ StripChars(cs) # <<>>
    /\ \A k \in 1..Len(StripChars(cs)) : StripChars(cs)[k] \in Digits

NoLeadingZeros(ds) ==
    LET nz == Positions(ds, LAMBDA d : d # "0")
    IN  IF nz = <<>> THEN <<"0">> ELSE SubSeq(ds, nz[1], Len(ds))

NoTrailingZeros(ds) ==
    LET nz == Positions(ds, LAMBDA d : d # "0")
    IN  IF nz = <<>> THEN <<"0">> ELSE SubSeq(ds, 1, Last(nz))

ToIntC(cs) == Val("int", NoLeadingZeros(StripChars(cs)))

(* float(s): digits with at most one point; repr of the float (a sign, *)
(* an exponent, 'inf' and 'nan' are accepted by float too; no word of  *)
(* the page texts has them)                                            *)
IsFloatC(cs) ==
    LET s == StripChars(cs)
    IN  /\ \A k \in 1..Len(s) : s[k] \in Digits \cup {"."}
        /\ Len(Positions(s, LAMBDA c : c = ".")) <= 1
        /\ \E k \in 1..Len(s) : s[k] \in Digits

ToFloatC(cs) ==
    LET s    == StripChars(cs)
        dots == Positions(s, LAMBDA c : c = ".")
        ip   == IF dots = <<>> THEN s ELSE SubSeq(s, 1, dots[1] - 1)
        fp   == IF dots = <<>> THEN <<>> ELSE SubSeq(s, dots[1] + 1, Len(s))
    IN  Val("float", NoLeadingZeros(ip) \o <<".">> \o NoTrailingZeros(fp))

(* int(s) is defined on the text of a line given by its words *)
IsInt(ws) == IsIntC(Chars(ws))

(* datetime.strptime(s, '%m/%d/%Y') raises ValueError for a month, a day *)
(* or a year that is none of the calendar                                *)
DigitVal == ("0" :> 0) @@ ("1" :> 1) @@ ("2" :> 2) @@ ("3" :> 3)
            @@ ("4" :> 4) @@ ("5" :> 5) @@ ("6" :> 6) @@ ("7" :> 7)
            @@ ("8" :> 8) @@ ("9" :> 9)

RECURSIVE Number(_)
Number(ds) ==
    IF ds = <<>> THEN 0
    ELSE 10 * Number(SubSeq(ds, 1, Len(ds) - 1)) + DigitVal[Last(ds)]

DaysIn(month, year) ==
    IF month \in {4, 6, 9, 11} THEN 30
    ELSE IF month # 2 THEN 31
    ELSE IF year % 4 = 0 /\ (year % 100 # 0 \/ year % 400 = 0) THEN 29
    ELSE 28

IsCalendarDate(d) ==
    LET month == Number(SubSeq(d, 1, 2))
        day   == Number(SubSeq(d, 4, 5))
        year  == Number(SubSeq(d, 7, 10))
    IN  /\ month \in 1..12
        /\ year >= 1
        /\ day \in 1..DaysIn(month, year)

(* .strftime('%Y-%m-%d'): the C library writes the year without leading *)
(* zeros                                                                *)
IsoDate(d) ==
    NoLeadingZeros(SubSeq(d, 7, 10)) \o <<"-">> \o SubSeq(d, 1, 2)
    \o <<"-">> \o SubSeq(d, 4, 5)

-----------------------------------------------------------------------------
(* Words of the texts, as the properties and the patterns of the *)
(* processors name them                                          *)
Digits9  == {"900000001", "900000002", "700000001"}
DunOf    == ("DUN#123456789" :> "123456789")
Upper3   == {"USD", "EUR", "HBG"}
Upper2   == {"KG", "LB", "ML", "CN"}
StyleCodes == {"157317-001", "157318-002"}
TariffCodes == {"9999.99.9999"}
Numerals == {"0", "5", "7", "12", "500"}

(* dates of the page texts; IsoOf is the ISO form of those that are *)
(* calendar dates                                                   *)
DateShape == {"01/15/2024", "02/29/2024", "13/45/2024", "02/30/2023"}
IsoOf == ("01/15/2024" :> "2024-01-15") @@ ("02/29/2024" :> "2024-02-29")
Sentinel == "9999-12-31"

(* values of the processors: a str is kept by its words, an int by its *)
(* numeral                                                             *)
StrW(p) == Val("str", p)
IntW(w) == Val("int", <<w>>)

(* ProcessingJob(...) as MainWindow.process_next_file builds it: the     *)
(* defaults of models.py lines 88-111 and the two extraction options     *)
NewJob(extract_text, extract_tables) ==
    [status |-> "PENDING", started_at |-> "None", completed_at |-> "None",
     error_message |-> "None", output_file |-> "None", pages_processed |-> 0,
     tables_extracted |-> 0, text_blocks_extracted |-> 0,
     extract_text |-> extract_text, extract_tables |-> extract_tables]

(* MainWindow.__init__, main_window.py lines 131-158, 195, 279 and       *)
(* widgets.py 141: no thread, an empty queue, the Start button enabled,  *)
(* the toolbar's Start Processing and the Cancel button disabled, no     *)
(* file chosen and the selector's Clear button disabled (widgets.py 62); *)
(* queued counts the files put on the queue so far,                      *)
(* dequeued lists the queue entries taken out and stack the modal        *)
(* dialogs that are open, innermost last; copy_on_model_validation tells *)
(* whether the installed pydantic copies a model given as a field value  *)
(* (models.py line 145), as pydantic 1 does and pydantic 2 does not      *)
NewWindow ==
    [file_queue |-> <<>>, start_button |-> TRUE, start_action |-> FALSE,
     cancel_button |-> FALSE, processing_thread |-> 0, file_path |-> "",
     clear_button |-> FALSE, queued |-> 0, dequeued |-> <<>>,
     stack |-> <<>>, copy_on_model_validation |-> FALSE]

-----------------------------------------------------------------------------
(* Tokens *)
T(k, v) == [k |-> k, v |-> v]
L(ws)   == T("line", ws)
M(m)    == T(m, <<>>)

(* the words of the lines, in order *)
JoinLines(seg) == Concat([i \in 1..Len(seg) |-> seg[i].v])

(* text.split(marker): the segments between the occurrences of a marker *)
SplitOn(text, m) == SplitAt(text, Positions(text, LAMBDA t : t.k = m))

(* the word groups between the occurrences of a label in a line *)
SplitW(ws, label) == SplitAt(ws, Positions(ws, LAMBDA w : w = label))

(* marker in text *)
Contains(text, m) == \E i \in 1..Len(text) : text[i].k = m

(* the label is a word of the line *)
HasWord(ws, w) == \E i \in 1..Len(ws) : ws[i] = w

(* the first word of a line that is in a set of words, or "" *)
FirstWord(ws, lex) ==
    LET hits == Positions(ws, LAMBDA w : w \in lex)
    IN  IF hits = <<>> THEN "" ELSE ws[hits[1]]

(* that word as a value, None when there is none *)
Search(ws, lex) ==
    LET w == FirstWord(ws, lex) IN IF w = "" THEN None ELSE Str(<<w>>)

(* The text of one token cut at its "\n", each line as its words; an    *)
(* empty word is a blank more between its neighbours.  A line stands on *)
(* a line of its own after a line and after NORET and goes on the open  *)
(* line otherwise; 'Total Units ' opens a line after a line and leaves  *)
(* it open                                                              *)
OpenLine(ws) == IF ws = <<>> THEN <<"">> ELSE ws

Piece(prev, t) ==
    CASE t.k = "line" ->
             IF prev \in {"line", "NORET"} THEN << <<"">>, OpenLine(t.v) >>
             ELSE <<OpenLine(t.v)>>
      [] t.k = "TU" ->
             IF prev = "line" THEN << <<"">>, <<"Total", "Units", "">> >>
             ELSE << <<"Total", "Units", "">> >>
      [] t.k = "NORET" ->
             << <<"">>, <<"", "NO", "RETURNS", "ACCEPTED", "WITHOUT",
                          "AUTHORIZATION.">> >>
      [] t.k = "REMIT" ->
             << <<"">>, <<"REMIT", "PAYMENT", "", "TO">>, <<"", "">>, <<"">> >>
      [] t.k = "DATE" -> << <<"", "Date">>, <<"">> >>
      [] t.k = "INV"  -> << <<"", "Invoice", "#">>, <<"">> >>
      [] t.k = "CUR"  -> << <<"", "Currency">>, <<"">> >>

(* two words written without a blank between them: of the texts put end *)
(* to end only 'AUTHORIZATION.' and 'Total Units ' meet this way        *)
Glue(u, v) ==
    IF u = "" THEN v
    ELSE IF v = "" THEN u
    ELSE IF u = "AUTHORIZATION." /\ v = "Total" THEN "AUTHORIZATION.Total"
    ELSE u

GlueLines(x, y) ==
    SubSeq(x, 1, Len(x) - 1) \o <<Glue(Last(x), Head(y))>> \o Tail(y)

(* the lines of two texts put end to end: the last line of the first    *)
(* goes on in the first line of the second                              *)
JoinPieces(a, b) ==
    SubSeq(a, 1, Len(a) - 1) \o <<GlueLines(Last(a), Head(b))>> \o Tail(b)

RECURSIVE JoinAll(_)
JoinAll(ps) ==
    IF Len(ps) = 1 THEN ps[1]
    ELSE LET h == Len(ps) \div 2
         IN  JoinPieces(JoinAll(SubSeq(ps, 1, h)),
                        JoinAll(SubSeq(ps, h + 1, Len(ps))))

(* the lines of a text that starts after a marker; the empty text has *)
(* one empty line                                                     *)
WordLines(seg) ==
    IF seg = <<>> THEN << <<"">> >>
    ELSE JoinAll([i \in 1..Len(seg) |->
                     Piece(IF i = 1 THEN "start" ELSE seg[i - 1].k, seg[i])])

AsLines(ls) == [n \in 1..Len(ls) |-> L(IF ls[n] = <<"">> THEN <<>> ELSE ls[n])]

(* text.split('\n') *)
Lines(seg) == Bind(WordLines(seg), AsLines)

(* the characters of a line, of lines joined by "\n" and of lines *)
(* joined by nothing                                              *)
LineChars(line) == Chars(line.v)

TextChars(ls) ==
    Concat([i \in 1..Len(ls) |->
               IF i = 1 THEN LineChars(ls[i]) ELSE <<NL>> \o LineChars(ls[i])])

JoinChars(ls) == Concat([i \in 1..Len(ls) |-> LineChars(ls[i])])

(* a label of the page, and the label after a blank *)
Label(w)   == Spelling(w)
SpLabel(w) == <<SP>> \o Spelling(w)

-----------------------------------------------------------------------------
(* Page prelude, lines 104-132 *)
Parts(text)       == SplitOn(text, "INV")
Block1(text)      == Parts(text)[1]
Block1Other(text) == SplitOn(Block1(text), "DATE")
BlockRemain(text) == Parts(text)[2]

(* block1_other[n] as characters: ' Date' leaves its "\n" to the text *)
(* after it                                                           *)
Block1OtherChars(text, n) ==
    IF n = 1 THEN TextChars(Lines(Block1Other(text)[1]))
    ELSE <<NL>> \o TextChars(Lines(Block1Other(text)[n]))

(* line 111 raises IndexError without the " Invoice #\n" marker, line 114 *)
(* without " Date" before it                                              *)
PreludeError(text) ==
    IF Len(Parts(text)) < 2 THEN <<"IndexError", 111>>
    ELSE IF Len(Block1Other(text)) < 2 THEN <<"IndexError", 114>>
    ELSE <<>>

(* re.search(r'DUN#(\d{9})', block1) *)
DunId(text) == CapturedTail(TextChars(Lines(Block1(text))), DunPattern, 9)

(* ''.join(block1_other[0][:-10].split('\n')[1:]): the text before its *)
(* last 10 characters, without its first line                          *)
ReportEntity(text) ==
    LET cs == Block1OtherChars(text, 1)
        ls == SplitC(Slice(cs, 0, Len(cs) - 10), <<NL>>)
    IN  StrC(Concat(Tail(ls)))

(* the invoice number searched in the text after the ' Invoice #' marker *)
InvoiceIdAfterMarker(text) ==
    Captured(TextChars(Lines(BlockRemain(text))), NineDigits)

(* line 114: re.search(r'(\d{9})', block1_other[1]) *)
InvoiceId(text) == Captured(Block1OtherChars(text, 2), NineDigits)

(* the date of the day, as the clock has it *)
Today ==
    <<"2", "0", "2", "4", "-", "0", "1", "-", "1">>
    \o << <<"5", "6", "7", "8">>[clock + 1] >>

(* lines 118-125 with the date of the day where line 123 has the      *)
(* sentinel                                                            *)
TransactionDateToday(text) ==
    LET cs == Block1OtherChars(text, 1)
        p  == SearchAt(cs, DatePattern)
        d  == SubSeq(cs, p, p + 9)
    IN  IF p = 0 THEN None
        ELSE IF IsCalendarDate(d) THEN StrC(IsoDate(d))
        ELSE StrC(Today)

(* lines 118-125 *)
TransactionDate(text) ==
    LET cs == Block1OtherChars(text, 1)
        p  == SearchAt(cs, DatePattern)
        d  == SubSeq(cs, p, p + 9)
    IN  IF p = 0 THEN None
        ELSE IF IsCalendarDate(d) THEN StrC(IsoDate(d))
        ELSE Str(<<Sentinel>>)

-----------------------------------------------------------------------------
(* Page roles, lines 135, 204, 225 *)
IsFirstPage(text) == Contains(BlockRemain(text), "CUR")
IsLastPage(text)  == Contains(text, "REMIT")

(* the last-page test taken before the first-page test *)
ClassifyLastFirst(text) ==
    IF IsLastPage(text) THEN "LAST"
    ELSE IF IsFirstPage(text) THEN "FIRST"
    ELSE "CONTINUATION"

Classify(text) ==
    IF IsFirstPage(text) THEN "FIRST"
    ELSE IF IsLastPage(text) THEN "LAST"
    ELSE "CONTINUATION"

-----------------------------------------------------------------------------
(* First page, lines 136-182.  A text that ends before 'Currency\n' *)
(* ends with the blank that stands before it                         *)
CurParts(text) == SplitOn(BlockRemain(text), "CUR")

BeforeCur(seg) == JoinPieces(WordLines(seg), << <<"", "">> >>)

Block2(text) == Bind(BeforeCur(CurParts(text)[1]), AsLines)
Block3(text) ==
    IF Len(CurParts(text)) > 2
    THEN Bind(BeforeCur(CurParts(text)[2]), AsLines)
    ELSE Lines(CurParts(text)[2])

(* block3_other[3].split('Customer PO')[0].strip().split('No. of Cartons') *)
CartonParts(line) ==
    SplitC(StripChars(SplitC(LineChars(line), Label("CustomerPO"))[1]),
           Label("No.ofCartons"))

FirstPageError(text) ==
    LET b3 == Block3(text)
    IN  IF Len(b3) < 3 THEN <<"IndexError", 154>>
        ELSE IF Len(b3) < 4 THEN <<"IndexError", 157>>
        ELSE IF ~IsIntC(CartonParts(b3[4])[1]) THEN <<"ValueError", 161>>
        ELSE IF Len(b3) < 5 THEN <<"IndexError", 164>>
        ELSE IF Len(b3) < 6 THEN <<"IndexError", 174>>
        ELSE <<>>

(* lines 164 and 174: the text the weight and its unit are searched in *)
NetWeightText(b3) ==
    StripChars(Last(SplitC(LineChars(b3[5]), Label("NetWeight:"))))
GrossWeightText(b3) ==
    StripChars(SplitC(LineChars(b3[6]), Label("GrossWeight:"))[1])

NetWeight(b3)   == Weight(NetWeightText(b3))
GrossWeight(b3) == Weight(GrossWeightText(b3))

(* the value line 139-182 assigns to one header-block local (None when a *)
(* pattern does not match)                                               *)
FirstPageLocal(text, f) ==
    LET b2 == Block2(text)
        b3 == Block3(text)
    IN  CASE f = "invoice_to" ->
                 StrC(RemoveC(StripChars(JoinChars(Slice(b2, 1, 4))),
                              Label("SOLDTO:")))
          [] f = "sold_to" ->
                 StrC(RemoveC(StripChars(JoinChars(Slice(b2, 4, 7))),
                              Label("SHIPTO:")))
          [] f = "ship_to" -> StrC(StripChars(JoinChars(Slice(b2, 7, 10))))
          [] f = "currency" -> Captured(LineChars(Last(b2)), ThreeUpper)
          [] f = "customer_id" -> Captured(LineChars(b3[1]), EightDigits)
          [] f \in {"store_id", "ship_via", "department_id"} -> EmptyStr
          [] f = "sales_order_id" -> Captured(LineChars(b3[3]), NineDigits)
          [] f = "customer_po" -> StrC(Last(CartonParts(b3[4])))
          [] f = "terms_str" ->
                 StrC(StripChars(SplitC(LineChars(b3[1]),
                                        Label("Terms"))[1]))
          [] f = "cartons_count" -> ToIntC(CartonParts(b3[4])[1])
          [] f = "cartons_net_weight" -> NetWeight(b3)
          [] f = "cartons_net_weight_unit" ->
                 IF NetWeight(b3) # None
                 THEN Captured(NetWeightText(b3), TwoUpper) ELSE None
          [] f = "cartons_gross_weight" -> GrossWeight(b3)
          [] f = "cartons_gross_weight_unit" ->
                 IF GrossWeight(b3) # None
                 THEN Captured(GrossWeightText(b3), TwoUpper) ELSE None

FirstPageLocals(text) ==
    [f \in {"invoice_to", "sold_to", "ship_to", "currency", "customer_id",
            "store_id", "sales_order_id", "customer_po", "terms_str",
            "ship_via", "department_id", "cartons_count",
            "cartons_net_weight", "cartons_net_weight_unit",
            "cartons_gross_weight", "cartons_gross_weight_unit"} |->
        FirstPageLocal(text, f)]

(* the locals assigned above the line that raises *)
AssignedBefore(line) ==
    LET upto154 == {"invoice_to", "sold_to", "ship_to", "currency",
                    "customer_id", "store_id"}
        upto157 == upto154 \cup {"sales_order_id"}
        upto161 == upto157 \cup {"customer_po", "terms_str", "ship_via",
                                 "department_id"}
        upto164 == upto161 \cup {"cartons_count"}
        upto174 == upto164 \cup {"cartons_net_weight",
                                 "cartons_net_weight_unit"}
    IN  CASE line = 154 -> upto154
          [] line = 157 -> upto157
          [] line = 161 -> upto161
          [] line = 164 -> upto164
          [] line = 174 -> upto174

(* lines 185-202: the conversions of the values saved in init_page_values *)
SaveStr(x)   == IF x # None THEN x ELSE EmptyStr
SaveInt(x)   == IF x # None THEN x ELSE IntV("0")
SaveFloat(x) == IF x # None THEN ToFloatC(x.v) ELSE FloatV("0.0")

BlockFields == {"invoice_to", "sold_to", "ship_to", "currency", "customer_id",
                "store_id", "sales_order_id", "customer_po", "terms_str",
                "ship_via", "department_id", "cartons_count",
                "cartons_net_weight", "cartons_net_weight_unit",
                "cartons_gross_weight", "cartons_gross_weight_unit"}
PageFields == {"report_entity", "transaction_date", "invoice_id", "dun_id"}
HeaderFields == PageFields \cup BlockFields
SummaryFields == {"total_units", "merchandise_total", "merchandise_total_unit",
                  "freight_total", "freight_total_unit", "total_invoice",
                  "total_invoice_unit"}
(* lines 226-239: the locals a continuation page reads back *)
CarriedFields == BlockFields \ {"cartons_gross_weight",
                                "cartons_gross_weight_unit"}

SavedValue(f, x) ==
    IF f = "cartons_count" THEN SaveInt(x)
    ELSE IF f \in {"cartons_net_weight", "cartons_gross_weight"}
    THEN SaveFloat(x)
    ELSE SaveStr(x)

-----------------------------------------------------------------------------
(* Last page, lines 205-221 *)
TotalsSplit(text) == SplitOn(SplitOn(BlockRemain(text), "NORET")[1], "TU")
(* line 205: the text between the first 'Total Units ' and the second,  *)
(* which ends in the "\n" of the line before the second                 *)
SummaryInfo(text) ==
    Bind(TotalsSplit(text), LAMBDA parts :
        Lines(parts[2])
        \o (IF Len(parts) > 2 /\ parts[2] # <<>> /\ Last(parts[2]).k = "line"
            THEN <<L(<<>>)>> ELSE <<>>))

(* summary_info[1].split('Merchandise Total') *)
MerchandiseParts(text) ==
    SplitC(LineChars(SummaryInfo(text)[2]), Label("MerchandiseTotal"))

(* line.split(' ') *)
Fields(cs) == SplitC(cs, <<SP>>)

LastPageError(text) ==
    IF Len(TotalsSplit(text)) < 2 THEN <<"IndexError", 205>>
    ELSE LET si == SummaryInfo(text)
             mt == Fields(StripChars(MerchandiseParts(text)[2]))
         IN  IF Len(si) < 2 \/ Len(MerchandiseParts(text)) < 2
             THEN <<"IndexError", 207>>
             ELSE IF ~IsFloatC(mt[1]) THEN <<"ValueError", 207>>
             ELSE IF Len(mt) < 2 THEN <<"IndexError", 208>>
             ELSE IF Len(si) < 3 THEN <<"IndexError", 209>>
             ELSE IF ~IsFloatC(Last(Fields(LineChars(si[3]))))
             THEN <<"ValueError", 209>>
             ELSE IF Len(si) < 4 \/ Len(Fields(LineChars(si[4]))) < 2
             THEN <<"IndexError", 211>>
             ELSE IF ~IsIntC(LineChars(si[1])) THEN <<"ValueError", 214>>
             ELSE IF ~IsFloatC(Fields(LineChars(si[4]))[2])
             THEN <<"ValueError", 219>>
             ELSE <<>>

(* the unit read as the last token of the freight and the invoice line *)
SummaryValuesUnitLast(text) ==
    LET si == SummaryInfo(text)
        mt == Fields(StripChars(MerchandiseParts(text)[2]))
        f3 == Fields(LineChars(si[3]))
        f4 == Fields(LineChars(si[4]))
    IN  [ total_units            |-> ToIntC(LineChars(si[1])),
          merchandise_total      |-> ToFloatC(mt[1]),
          merchandise_total_unit |-> StrC(mt[2]),
          freight_total          |-> ToFloatC(Last(f3)),
          freight_total_unit     |-> StrC(Last(f3)),
          total_invoice          |-> ToFloatC(f4[2]),
          total_invoice_unit     |-> StrC(Last(f4)) ]

SummaryValues(text) ==
    LET si == SummaryInfo(text)
        mt == Fields(StripChars(MerchandiseParts(text)[2]))
        f3 == Fields(LineChars(si[3]))
        f4 == Fields(LineChars(si[4]))
    IN  [ total_units            |-> ToIntC(LineChars(si[1])),
          merchandise_total      |-> ToFloatC(mt[1]),
          merchandise_total_unit |-> StrC(mt[2]),
          freight_total          |-> ToFloatC(Last(f3)),
          freight_total_unit     |-> StrC(f3[1]),
          total_invoice          |-> ToFloatC(f4[2]),
          total_invoice_unit     |-> StrC(f4[1]) ]

(* line 223: the keys of init_page_values that are columns of df_summary *)
SummaryColumns == {"report_entity", "transaction_date", "invoice_id",
                   "dun_id", "invoice_to", "sold_to", "ship_to"}
                  \cup SummaryFields
SummaryRow(ipv) == [k \in SummaryColumns |-> ipv[k]]

-----------------------------------------------------------------------------
(* The tariff code, lines 312-322 *)

(* r'\d{4}\.\d{2}\.\d{4}$' *)
TariffPattern ==
    Rep(4, Digits) \o <<{"."}>> \o Rep(2, Digits) \o <<{"."}>>
    \o Rep(4, Digits)

(* re.match(pattern, cs): the pattern is matched at the start of cs and *)
(* '$' asks for the end of cs after it                                  *)
MatchTariff(cs) ==
    /\ Len(cs) = Len(TariffPattern)
    /\ MatchAt(cs, 1, TariffPattern)

(* the test of line 314 passed only by texts longer than 12 characters *)
TariffCodeLongerOnly(text) ==
    LET tariff_code_text == StripChars(text)
        n == Len(tariff_code_text)
    IN  IF n > 12
        THEN IF MatchTariff(SubSeq(tariff_code_text, n - 11, n))
             THEN StrC(SubSeq(tariff_code_text, n - 11, n)) ELSE None
        ELSE None

(* lines 313-322; text is block.split(' Tariff code')[0] *)
TariffCode(text) ==
    LET tariff_code_text == StripChars(text)
        n == Len(tariff_code_text)
    IN  IF n >= 12
        THEN IF MatchTariff(SubSeq(tariff_code_text, n - 11, n))
             THEN StrC(SubSeq(tariff_code_text, n - 11, n)) ELSE None
        ELSE None

-----------------------------------------------------------------------------
(* Line items, lines 247-343.  Block indices are 1-based here: block i of *)
(* the script is blocks[i + 1].                                           *)
IsAnchor(line) == SearchAt(LineChars(line), StylePattern) # 0

PatternIndices(blocks) == Positions(blocks, IsAnchor)

(* lines 254-264 *)
ItemError(blocks, i) ==
    IF i + 5 > Len(blocks) THEN <<"IndexError", 255>>
    ELSE IF ~IsIntC(LineChars(blocks[i + 2])) THEN <<"ValueError", 264>>
    ELSE <<>>

(* the cap used for every anchor *)
LoopTotalAlwaysCap(pattern_indices, c) == LoopCap

(* lines 297-300 *)
LoopTotal(pattern_indices, c) ==
    IF pattern_indices[c] = Last(pattern_indices) THEN LoopCap
    ELSE pattern_indices[c + 1] - pattern_indices[c]

(* line 303 *)
IsDelivery(line) == InC(LineChars(line), Label("Delivery#"))

(* line 308: block.split('Delivery #')[1].strip() *)
RdsCertifiedText(line) ==
    StripChars(SplitC(LineChars(line), Label("Delivery#"))[2])

(* lines 308-343 *)
EmitError(blocks, i, off) ==
    IF i + 4 + off > Len(blocks) THEN <<"IndexError", 308>>
    ELSE IF ~IsDelivery(blocks[i + 4 + off]) THEN <<"IndexError", 308>>
    ELSE IF Len(Fields(RdsCertifiedText(blocks[i + 4 + off]))) < 2
    THEN <<"IndexError", 342>>
    ELSE <<>>

(* lines 346-365: the header locals in the order parsed_data reads them; *)
(* the first one never assigned raises NameError at its line            *)
ParsedDataOrder ==
    <<"report_entity", "transaction_date", "invoice_id", "dun_id",
      "invoice_to", "sold_to", "ship_to", "currency", "customer_id",
      "store_id", "sales_order_id", "customer_po", "terms_str", "ship_via",
      "department_id", "cartons_count", "cartons_net_weight",
      "cartons_net_weight_unit", "cartons_gross_weight",
      "cartons_gross_weight_unit">>

ParsedDataError(locals) ==
    LET missing == Positions(ParsedDataOrder, LAMBDA f : locals[f] = Undef)
    IN  IF missing = <<>> THEN <<>>
        ELSE <<"NameError", 345 + missing[1]>>

(* lines 266-289: r'^([A-Z]{3})\s+([A-Z]{2})', then r'^([A-Z]{3})$', then *)
(* r'^([A-Z]{2})$' on the text before ' Country of Origin'               *)
Origin(line) ==
    LET cs == StripChars(SplitC(LineChars(line),
                                SpLabel("CountryofOrigin"))[1])
        gap == {q \in 5..Len(cs) :
                   /\ \A k \in 4..(q - 1) : cs[k] = SP
                   /\ MatchAt(cs, q, TwoUpper)}
    IN  IF MatchAt(cs, 1, ThreeUpper) /\ gap # {}
        THEN <<StrC(SubSeq(cs, 1, 3)),
               StrC(SubSeq(cs, Min(gap), Min(gap) + 1))>>
        ELSE IF Len(cs) = 3 /\ MatchAt(cs, 1, ThreeUpper)
        THEN <<StrC(cs), None>>
        ELSE IF Len(cs) = 2 /\ MatchAt(cs, 1, TwoUpper)
        THEN <<None, StrC(cs)>>
        ELSE <<None, None>>

(* the first word of the anchor block taken as the whole style_color *)
StyleColorCodeOnly(line) == StrC(Fields(StripChars(LineChars(line)))[1])

(* line 254: the text of the anchor block before 'Size' *)
StyleColor(line) == StrC(SplitC(LineChars(line), Label("Size"))[1])

(* lines 259-260: the first run of two uppercase letters after 'Qty' *)
Size(line) ==
    Captured(StripChars(Last(SplitC(LineChars(line), Label("Qty")))), TwoUpper)

(* lines 308-309: 'RDS Certified' in the text between the first and the *)
(* second 'Delivery #' of the block                                     *)
RdsCertified(line) ==
    IF InC(RdsCertifiedText(line), Label("RDSCertified"))
    THEN IntV("1") ELSE IntV("0")

(* lines 327-336: the last 10 characters when they are all digits *)
DeliveryId(line) ==
    LET cs == StripChars(SplitC(LineChars(line), SpLabel("Delivery#"))[1])
        n  == Len(cs)
    IN  IF n >= 10 /\ \A k \in (n - 9)..n : cs[k] \in Digits
        THEN StrC(SubSeq(cs, n - 9, n)) ELSE None

(* lines 338-339 *)
OtherDescr(lines, tariff_code) ==
    LET other_descr_str ==
            SplitC(StripChars(JoinChars(lines)), SpLabel("Tariffcode"))[1]
    IN  IF tariff_code # None
        THEN StrC(Slice(other_descr_str, 0, Len(other_descr_str) - 12))
        ELSE StrC(other_descr_str)

ItemTariff(line) ==
    TariffCode(SplitC(LineChars(line), SpLabel("Tariffcode"))[1])

ItemFields(blocks, i, off) ==
    LET fb   == blocks[i + 4 + off]
        post == Fields(RdsCertifiedText(fb))
    IN  [ style_color       |-> StyleColor(blocks[i]),
          style_color_descr |-> StrC(LineChars(blocks[i + 5])),
          size              |-> Size(blocks[i + 1]),
          qty               |-> ToIntC(LineChars(blocks[i + 2])),
          product_family    |-> Origin(blocks[i + 3])[1],
          country_of_origin |-> Origin(blocks[i + 3])[2],
          rds_certified     |-> RdsCertified(fb),
          tariff_code       |-> ItemTariff(fb),
          delivery_id       |-> DeliveryId(fb),
          other_descr       |-> OtherDescr(SubSeq(blocks, i + 4, i + 4 + off),
                                           ItemTariff(fb)),
          price             |-> StrC(post[Len(post) - 1]),
          ext_price         |-> StrC(Last(post)) ]

-----------------------------------------------------------------------------
(* init_page_values, lines 61-91, and its three updates *)
InitPageValues ==
    [f \in HeaderFields \cup SummaryFields |->
        IF f \in {"cartons_count", "total_units"} THEN IntV("0")
        ELSE IF f \in {"cartons_net_weight", "cartons_gross_weight",
                       "merchandise_total", "freight_total", "total_invoice"}
        THEN FloatV("0.0")
        ELSE EmptyStr]

PageLocals(text) ==
    [ report_entity    |-> ReportEntity(text),
      transaction_date |-> TransactionDate(text),
      invoice_id       |-> InvoiceId(text),
      dun_id           |-> DunId(text) ]

(* lines 127-132 *)
PageUpdate(ipv, text) ==
    [f \in DOMAIN ipv |->
        IF f \in PageFields THEN PageLocals(text)[f] ELSE ipv[f]]

(* lines 185-202 *)
FirstPageUpdate(ipv, text) ==
    [f \in DOMAIN ipv |->
        IF f \in BlockFields THEN SavedValue(f, FirstPageLocals(text)[f])
        ELSE ipv[f]]

(* lines 213-221 *)
LastPageUpdate(ipv, text) ==
    [f \in DOMAIN ipv |->
        IF f \in SummaryFields THEN SummaryValues(text)[f] ELSE ipv[f]]

(* the row built but not added *)
SummaryAppendDropped(summary, ipv) == summary

(* line 224 *)
SummaryAppend(summary, ipv) == Append(summary, SummaryRow(ipv))

-----------------------------------------------------------------------------
(* The page texts the reader hands to the loop *)
Banner(ent, dun, date, inv) ==
    <<L(<<"Page">>), L(<<ent>>)>>
    \o (IF dun = "" THEN <<>> ELSE <<L(<<dun>>)>>)
    \o <<L(<<date>>), M("DATE"), L(<<inv>>), M("INV")>>

BannerA == Banner("ACME", "DUN#123456789", "01/15/2024", "900000001")
BannerB == Banner("OTHER", "", "13/45/2024", "900000002")

HeaderBlock(ccy) ==
    <<L(<<>>), L(<<"A1">>), L(<<"A2">>), L(<<"A3", "SOLDTO:">>),
      L(<<"S1">>), L(<<"S2">>), L(<<"S3", "SHIPTO:">>),
      L(<<"H1">>), L(<<"H2">>), L(<<"H3">>), L(<<ccy>>), M("CUR"),
      L(<<"12345678", "NET30", "Terms">>), L(<<"x">>), L(<<"700000001">>),
      L(<<"7", "No.ofCartons", "PO55", "CustomerPO">>),
      L(<<"NetWeight:", "12.500", "KG">>),
      L(<<"13.250", "LB", "GrossWeight:">>)>>

FillLines(n) == [k \in 1..n |-> L(<<"trim">>)]

ItemHead(code, qty) ==
    <<L(<<code, "Style">>), L(<<"Qty", "ML">>), L(<<qty>>),
      L(<<"HBG", "CN", "CountryofOrigin">>)>>

Delivery(price, ext) ==
    L(<<"9999.99.9999", "Tariffcode", "0123456789", "Delivery#",
        "RDSCertified", price, ext>>)

Totals ==
    <<M("TU"), L(<<"500">>), L(<<"MerchandiseTotal", "10000.00", "USD">>),
      L(<<"USD", "250.00">>), L(<<"USD", "10250.00">>), M("NORET"),
      M("REMIT"), L(<<"bank">>)>>

Item1 == ItemHead("157317-001", "12") \o FillLines(1)
         \o <<Delivery("10.00", "120.00"), L(<<"foo">>)>>
Item2 == ItemHead("157318-002", "5")
         \o <<Delivery("10.00", "50.00"), L(<<"foo">>)>>

PFirst    == BannerA \o HeaderBlock("USD") \o Item1
PCont     == BannerA \o Item1 \o Item2
PLast     == BannerA \o Totals
PSingle   == BannerA \o HeaderBlock("USD") \o Item1 \o Totals
PFirstB   == BannerB \o HeaderBlock("eur") \o Item2
PContB    == BannerB \o Item2
PNoMarker == <<L(<<"Page">>), L(<<"ACME">>)>> \o Totals
PSkip     == BannerA \o ItemHead("157317-001", "12") \o FillLines(2) \o Item2
PLong     == BannerA \o ItemHead("157317-001", "12") \o FillLines(LoopCap)
             \o <<Delivery("10.00", "120.00"), L(<<"foo">>)>>

(* totals lines written label, value, unit *)
TotalsLabelled ==
    <<M("TU"), L(<<"500">>), L(<<"MerchandiseTotal", "10000.00", "USD">>),
      L(<<"Freight", "250.00", "USD">>), L(<<"Invoice", "10250.00", "USD">>),
      M("NORET"), M("REMIT"), L(<<"bank">>)>>
PLastLabelled == BannerA \o TotalsLabelled

PageSet == {PFirst, PCont, PLast, PSingle, PFirstB, PContB, PNoMarker,
            PSkip, PLong, PLastLabelled}

-----------------------------------------------------------------------------
(* The page loop, lines 93-379 *)
Init ==
    /\ pages = <<>>
    /\ page_no = 0
    /\ pc = "loop"
    /\ err = <<>>
    /\ role = <<>>
    /\ init_page_values = InitPageValues
    /\ loc = [f \in HeaderFields |-> Undef]
    /\ block3_other = [defined |-> FALSE, blocks |-> <<>>, src |-> 0]
    /\ df = <<>>
    /\ df_summary = <<>>
    /\ cnt = 0
    /\ j = 0
    /\ rds_idx_offset = 0
    /\ arg = <<>>
    /\ res = Undef
    /\ job = NewJob(TRUE, TRUE)
    /\ window = NewWindow
    /\ threads = <<>>
    /\ clock = 0
    /\ first_run = Undef

Raise(e) == pc' = "error" /\ err' = e

(* the reader yields the next page; lines 104-132 *)
StartPage(text) ==
    /\ pc = "loop"
    /\ Len(pages) < MaxPages
    /\ pages' = Append(pages, text)
    /\ page_no' = page_no + 1
    /\ IF PreludeError(text) # <<>>
       THEN /\ Raise(PreludeError(text))
            /\ loc' = [loc EXCEPT !.dun_id = DunId(text),
                                  !.report_entity = ReportEntity(text)]
            /\ UNCHANGED init_page_values
       ELSE /\ pc' = "classify"
            /\ loc' = [f \in DOMAIN loc |->
                         IF f \in PageFields THEN PageLocals(text)[f]
                         ELSE loc[f]]
            /\ init_page_values' = PageUpdate(init_page_values, text)
            /\ UNCHANGED err
    /\ UNCHANGED <<role, block3_other, df, df_summary, cnt, j,
                   rds_idx_offset>>
    /\ UNCHANGED <<arg, res, job, window, threads, clock, first_run>>

(* lines 135-202 *)
FirstPage ==
    /\ pc = "classify"
    /\ Classify(pages[page_no]) = "FIRST"
    /\ role' = Append(role, "FIRST")
    /\ LET text == pages[page_no]
       IN  IF FirstPageError(text) # <<>>
           THEN /\ Raise(FirstPageError(text))
                /\ loc' = [f \in DOMAIN loc |->
                             IF f \in AssignedBefore(FirstPageError(text)[2])
                             THEN FirstPageLocal(text, f) ELSE loc[f]]
                /\ block3_other' = [defined |-> TRUE, blocks |-> Block3(text),
                                    src |-> page_no]
                /\ UNCHANGED <<init_page_values, cnt>>
           ELSE /\ pc' = "items"
                /\ loc' = [f \in DOMAIN loc |->
                             IF f \in BlockFields
                             THEN FirstPageLocals(text)[f] ELSE loc[f]]
                /\ init_page_values' = FirstPageUpdate(init_page_values, text)
                /\ block3_other' = [defined |-> TRUE, blocks |-> Block3(text),
                                    src |-> page_no]
                /\ cnt' = 1
                /\ UNCHANGED err
    /\ UNCHANGED <<pages, page_no, df, df_summary, j, rds_idx_offset>>
    /\ UNCHANGED <<arg, res, job, window, threads, clock, first_run>>

(* lines 204-224 and 247: block3_other is not assigned on this branch *)
LastPage ==
    /\ pc = "classify"
    /\ Classify(pages[page_no]) = "LAST"
    /\ role' = Append(role, "LAST")
    /\ LET text == pages[page_no]
       IN  IF LastPageError(text) # <<>>
           THEN /\ Raise(LastPageError(text))
                /\ UNCHANGED <<init_page_values, df_summary, cnt>>
           ELSE /\ init_page_values' = LastPageUpdate(init_page_values, text)
                /\ df_summary' = SummaryAppend(df_summary, init_page_values')
                /\ IF block3_other.defined
                   THEN pc' = "items" /\ cnt' = 1 /\ UNCHANGED err
                   ELSE Raise(<<"NameError", 247>>) /\ UNCHANGED cnt
    /\ UNCHANGED <<pages, page_no, loc, block3_other, df, j, rds_idx_offset>>
    /\ UNCHANGED <<arg, res, job, window, threads, clock, first_run>>

(* lines 225-240 *)
ContinuationPage ==
    /\ pc = "classify"
    /\ Classify(pages[page_no]) = "CONTINUATION"
    /\ role' = Append(role, "CONTINUATION")
    /\ pc' = "items"
    /\ loc' = [f \in DOMAIN loc |->
                 IF f \in CarriedFields THEN init_page_values[f] ELSE loc[f]]
    /\ block3_other' = [defined |-> TRUE,
                        blocks |-> Lines(BlockRemain(pages[page_no])),
                        src |-> page_no]
    /\ cnt' = 1
    /\ UNCHANGED <<pages, page_no, err, init_page_values, df, df_summary, j,
                   rds_idx_offset>>
    /\ UNCHANGED <<arg, res, job, window, threads, clock, first_run>>

(* lines 251-300: the fixed offsets of the next anchor *)
BeginItem ==
    /\ pc = "items"
    /\ cnt <= Len(PatternIndices(block3_other.blocks))
    /\ LET e == ItemError(block3_other.blocks,
                          PatternIndices(block3_other.blocks)[cnt])
       IN  IF e # <<>>
           THEN Raise(e) /\ UNCHANGED <<j, rds_idx_offset>>
           ELSE /\ pc' = "search"
                /\ j' = 0
                /\ rds_idx_offset' = 0
                /\ UNCHANGED err
    /\ UNCHANGED <<pages, page_no, role, init_page_values, loc, block3_other,
                   df, df_summary, cnt>>
    /\ UNCHANGED <<arg, res, job, window, threads, clock, first_run>>

(* lines 302-306: one iteration of the forward search *)
SearchStep ==
    /\ pc = "search"
    /\ LET blocks == block3_other.blocks
           pi     == PatternIndices(blocks)
           idx    == pi[cnt] + 4 + rds_idx_offset
       IN  IF idx > Len(blocks)
           THEN Raise(<<"IndexError", 303>>) /\ UNCHANGED <<j, rds_idx_offset>>
           ELSE /\ j' = j + 1
                /\ UNCHANGED err
                /\ IF IsDelivery(blocks[idx])
                   THEN pc' = "emit" /\ UNCHANGED rds_idx_offset
                   ELSE /\ rds_idx_offset' = rds_idx_offset + 1
                        /\ pc' = IF j + 1 < LoopTotal(pi, cnt)
                                 THEN "search" ELSE "emit"
    /\ UNCHANGED <<pages, page_no, role, init_page_values, loc, block3_other,
                   df, df_summary, cnt>>
    /\ UNCHANGED <<arg, res, job, window, threads, clock, first_run>>

(* lines 308-379 *)
EmitItem ==
    /\ pc = "emit"
    /\ LET blocks == block3_other.blocks
           i      == PatternIndices(blocks)[cnt]
           e      == EmitError(blocks, i, rds_idx_offset)
       IN  IF e # <<>>
           THEN Raise(e) /\ UNCHANGED <<df, cnt>>
           ELSE IF ParsedDataError(loc) # <<>>
           THEN Raise(ParsedDataError(loc)) /\ UNCHANGED <<df, cnt>>
           ELSE /\ df' = Append(df, [header |-> loc,
                                     item   |-> ItemFields(blocks, i,
                                                           rds_idx_offset),
                                     page   |-> page_no,
                                     src    |-> block3_other.src,
                                     anchor |-> i,
                                     found  |-> i + 4 + rds_idx_offset])
                /\ cnt' = cnt + 1
                /\ pc' = "items"
                /\ UNCHANGED err
    /\ UNCHANGED <<pages, page_no, role, init_page_values, loc, block3_other,
                   df_summary, j, rds_idx_offset>>
    /\ UNCHANGED <<arg, res, job, window, threads, clock, first_run>>

(* line 251: no anchor left on this page *)
EndPage ==
    /\ pc = "items"
    /\ cnt > Len(PatternIndices(block3_other.blocks))
    /\ pc' = "loop"
    /\ UNCHANGED <<pages, page_no, err, role, init_page_values, loc,
                   block3_other, df, df_summary, cnt, j, rds_idx_offset>>
    /\ UNCHANGED <<arg, res, job, window, threads, clock, first_run>>

(* line 93: the reader has no page left *)
EndDocument ==
    /\ pc = "loop"
    /\ pc' = "done"
    /\ UNCHANGED <<pages, page_no, err, role, init_page_values, loc,
                   block3_other, df, df_summary, cnt, j, rds_idx_offset>>
    /\ UNCHANGED <<arg, res, job, window, threads, clock, first_run>>

Next ==
    \/ \E text \in PageSet : StartPage(text)
    \/ FirstPage
    \/ LastPage
    \/ ContinuationPage
    \/ BeginItem
    \/ SearchStep
    \/ EmitItem
    \/ EndPage
    \/ EndDocument

Spec == Init /\ [][Next]_vars

-----------------------------------------------------------------------------
(* One-page documents: the loop run on a single page drawn from a wider   *)
(* set of page texts                                                      *)

(* Bound: the number of lines between an item's origin line and its       *)
(* delivery line                                                          *)
MaxFill == 2

(* the commercial-terms lines that follow the 'Currency' marker *)
TermsLines(cartons) ==
    <<L(<<"12345678", "NET30", "Terms">>), L(<<"x">>), L(<<"700000001">>),
      L(<<cartons, "No.ofCartons", "PO55", "CustomerPO">>),
      L(<<"NetWeight:", "12.500", "KG">>),
      L(<<"13.250", "LB", "GrossWeight:">>)>>

HeaderBlockWith(ccy, terms) ==
    <<L(<<>>), L(<<"A1">>), L(<<"A2">>), L(<<"A3", "SOLDTO:">>),
      L(<<"S1">>), L(<<"S2">>), L(<<"S3", "SHIPTO:">>),
      L(<<"H1">>), L(<<"H2">>), L(<<"H3">>), L(<<ccy>>), M("CUR")>>
    \o terms

ItemLines(head, size, qty, origin, n, tail) ==
    <<L(head), L(size), L(qty), L(origin)>> \o FillLines(n) \o tail

SizeLines   == {<<"M">>, <<"Qty", "ML">>}
QtyLines    == {<<"12">>, <<"x">>}
OriginLines == {<<"HBG", "CN">>, <<"HBG", "CN", "CountryofOrigin">>,
                <<"HBG">>, <<"CN">>, <<"HBG", "CN", "X">>, <<"hbg", "cn">>,
                <<>>}
DeliveryTails == {<<>>, <<Delivery("10.00", "120.00"), L(<<"foo">>)>>}

(* delivery lines: without 'RDS Certified', with it before the        *)
(* 'Delivery #' marker, with two blanks between the prices, with one   *)
(* price only, without a tariff code                                   *)
DeliveryLines ==
    {<<"9999.99.9999", "Tariffcode", "0123456789", "Delivery#",
       "10.00", "120.00">>,
     <<"RDSCertified", "9999.99.9999", "Tariffcode", "0123456789",
       "Delivery#", "10.00", "120.00">>,
     <<"9999.99.9999", "Tariffcode", "0123456789", "Delivery#",
       "RDSCertified", "10.00", "", "120.00">>,
     <<"9999.99.9999", "Tariffcode", "0123456789", "Delivery#", "120.00">>,
     <<"trim", "Tariffcode", "0123456789", "Delivery#", "RDSCertified",
       "10.00", "120.00">>}

(* items with each delivery line, and one whose description line before *)
(* the delivery line holds a 'Tariff code' label of its own             *)
DeliveryItems ==
    {ItemLines(<<"157317-001", "Style", "Name">>, <<"Qty", "ML">>, <<"12">>,
               <<"HBG", "CN", "CountryofOrigin">>, 0,
               <<L(d), L(<<"foo">>)>>) : d \in DeliveryLines}
    \cup {ItemLines(<<"157317-001", "Style", "Name">>, <<"Qty", "ML">>,
                    <<"12">>, <<"HBG", "CN", "CountryofOrigin">>, 0,
                    <<L(<<"lining", "Tariffcode">>),
                      Delivery("10.00", "120.00"), L(<<"foo">>)>>)}

(* the item that ends the page, cut after any of its lines *)
LastItems ==
    DeliveryItems \cup
    {ItemLines(<<"157317-001", "Style", "Name">>, s, q, o, 0, t) :
        s \in SizeLines, q \in QtyLines, o \in OriginLines,
        t \in DeliveryTails \ {<<>>}}
    \cup {ItemLines(<<"157317-001", "Style", "Name">>, <<"Qty", "ML">>, q,
                    <<"HBG", "CN", "CountryofOrigin">>, n, t) :
            q \in QtyLines, n \in 0..MaxFill, t \in DeliveryTails}

Truncations(items) ==
    UNION {{SubSeq(it, 1, k) : k \in 1..Len(it)} : it \in items}

(* the item before it, if any *)
FirstItems ==
    {<<>>}
    \cup {ItemLines(<<"157318-002", "Style">>, <<"Qty", "ML">>, q,
                    <<"HBG", "CN", "CountryofOrigin">>, n, t) :
            q \in QtyLines, n \in {0, MaxFill}, t \in DeliveryTails}

ItemPages ==
    {BannerA \o HeaderBlock("USD") \o f \o l :
        f \in FirstItems, l \in LastItems \cup Truncations(LastItems)}

(* more than LoopCap lines after the last anchor, none a delivery line *)
CapPage ==
    BannerA \o HeaderBlock("USD")
    \o ItemLines(<<"157317-001", "Style", "Name">>, <<"Qty", "ML">>,
                 <<"12">>, <<"HBG", "CN">>, LoopCap + 1, <<>>)

(* first pages whose commercial-terms block is cut short or holds a *)
(* carton count that is no number                                   *)
HeaderPages ==
    {BannerA \o HeaderBlockWith("USD", SubSeq(TermsLines(c), 1, k)) :
        c \in {"7", "many"}, k \in 0..6}
    \cup {BannerA \o HeaderBlockWith("USD", TermsLines("many")) \o Item1}

(* banners with a date, a date that is no calendar date, and a date *)
(* field not written as mm/dd/yyyy, before each kind of page body   *)
BannerPages ==
    {Banner("ACME", dun, date, inv) \o body :
        dun \in {"", "DUN#123456789"},
        date \in {"01/15/2024", "13/45/2024", "2024-01-15"},
        inv \in {"900000001", "pending"},
        body \in {<<L(<<"note">>)>>, Totals, HeaderBlock("USD") \o Item1}}

(* the invoice number and the date after the ' Invoice #' marker *)
MarkerFirstPages ==
    {<<L(<<"Page">>), L(<<"ACME">>), M("INV"),
       L(<<"900000001", "01/15/2024">>)>>,
     <<L(<<"Page">>), L(<<"ACME">>), L(<<"          ">>), M("DATE"),
       L(<<"ref">>), M("INV"), L(<<"900000001", "01/15/2024">>)>>}

SinglePageSet ==
    ItemPages \cup {CapPage} \cup HeaderPages \cup BannerPages
    \cup MarkerFirstPages

StartSinglePage ==
    /\ pages = <<>>
    /\ \E text \in SinglePageSet : StartPage(text)

NextPage ==
    \/ StartSinglePage
    \/ FirstPage
    \/ LastPage
    \/ ContinuationPage
    \/ BeginItem
    \/ SearchStep
    \/ EmitItem
    \/ EndPage
    \/ EndDocument

SpecPage == Init /\ [][NextPage]_vars

-----------------------------------------------------------------------------
(* Properties *)
RoleCount(r) == Cardinality({k \in 1..Len(role) : role[k] = r})

(* the block sequence of a page itself *)
OwnBlocks(text) ==
    IF IsFirstPage(text) THEN Block3(text) ELSE Lines(BlockRemain(text))

RECURSIVE AnchorTotal(_)
AnchorTotal(ps) ==
    IF ps = <<>> THEN 0
    ELSE Len(PatternIndices(OwnBlocks(Head(ps)))) + AnchorTotal(Tail(ps))

(* every page of the document shows the same banner *)
SameBanner ==
    \A p, q \in 1..Len(pages) : PageLocals(pages[p]) = PageLocals(pages[q])

(* C1: in a parsed document of a FIRST, a CONTINUATION and a LAST page   *)
(* (all with the same banner) every line item carries the same value for *)
(* every header field.                                                   *)
C1_HeaderIdentical ==
    (pc = "done" /\ role = <<"FIRST", "CONTINUATION", "LAST">> /\ SameBanner)
    => \A a, b \in 1..Len(df) : df[a].header = df[b].header

(* C2: every line item is emitted from the blocks of the page being     *)
(* processed, and a parsed document has as many line items as its pages *)
(* have anchor blocks.                                                  *)
C2_OneItemPerAnchor ==
    /\ \A k \in 1..Len(df) : df[k].src = df[k].page
    /\ pc = "done" => Len(df) = AnchorTotal(pages)

(* C3: a parsed single-page document whose page has the FIRST markers and *)
(* the LAST marker has the line items of the page and exactly one summary *)
(* record.                                                                *)
C3_SinglePage ==
    (pc = "done" /\ Len(pages) = 1 /\ IsFirstPage(pages[1])
     /\ IsLastPage(pages[1]))
    => /\ RoleCount("FIRST") = 1
       /\ Len(df) = AnchorTotal(pages)
       /\ Len(df_summary) = 1

(* C4: a parsed document has a summary record if and only if one of its *)
(* pages was classified LAST.                                           *)
C4_SummaryIffLast ==
    pc = "done" => (Len(df_summary) >= 1 <=> RoleCount("LAST") >= 1)

C4_Witness ==
    pc = "done" /\ Len(df_summary) = 1 /\ role = <<"FIRST", "LAST">>

(* C5: when a second page of the document is classified FIRST the parse *)
(* is in its error state.                                               *)
C5_SecondFirstIsError == RoleCount("FIRST") >= 2 => pc = "error"

(* a page other than a FIRST page is taken or processed in this step, *)
(* after a FIRST page                                                 *)
LaterPageStep ==
    /\ RoleCount("FIRST") >= 1
    /\ pc' # "error"
    /\ page_no' >= 1
    /\ Classify(pages'[page_no']) # "FIRST"

(* C6: once a FIRST page has been processed, the steps of a later      *)
(* CONTINUATION or LAST page leave every header field of               *)
(* init_page_values unchanged.                                         *)
C6_HeaderUnchanged ==
    [][LaterPageStep
       => \A f \in HeaderFields : init_page_values'[f] = init_page_values[f]]_vars

(* the header-block marker stands after the first header marker and *)
(* before the next one                                              *)
HeaderBlockFollows(text) ==
    \E a, b \in 1..Len(text) :
        /\ a < b
        /\ text[a].k = "INV"
        /\ text[b].k = "CUR"
        /\ \A c \in 1..(b - 1) : c # a => text[c].k # "INV"

RemitPresent(text) == \E a \in 1..Len(text) : text[a].k = "REMIT"

(* C7: the role of every classified page is FIRST when the header-block *)
(* marker follows the header marker, otherwise LAST when the remit      *)
(* marker is present, otherwise CONTINUATION; it depends on the text of *)
(* that page only.                                                      *)
C7_RoleOfPage ==
    \A k \in 1..Len(role) :
        role[k] = IF HeaderBlockFollows(pages[k]) THEN "FIRST"
                  ELSE IF RemitPresent(pages[k]) THEN "LAST"
                  ELSE "CONTINUATION"

C7_Witness ==
    \E k \in 1..Len(role) :
        /\ role[k] = "FIRST"
        /\ HeaderBlockFollows(pages[k])
        /\ RemitPresent(pages[k])

(* C8: taking a page without the " Invoice #" marker does not fail and *)
(* does not classify it FIRST.                                         *)
C8_NoMarkerNoFailure ==
    (page_no >= 1 /\ ~Contains(pages[page_no], "INV"))
    => /\ pc # "error"
       /\ Len(role) = page_no => role[page_no] # "FIRST"

(* a LAST page has been processed to its end *)
LastPageDone ==
    \E k \in 1..Len(role) :
        role[k] = "LAST" /\ (k < page_no \/ pc \in {"loop", "done"})

(* C9: once a LAST page has been processed no line item and no summary *)
(* record is added.                                                    *)
C9_TerminalAfterLast ==
    [][LastPageDone => (df' = df /\ df_summary' = df_summary)]_vars

(* the bound of the search of the current anchor *)
SearchBound ==
    LET pi == PatternIndices(block3_other.blocks)
    IN  IF cnt = Len(pi) THEN 100 ELSE pi[cnt + 1] - pi[cnt]

(* C10: the forward search of an anchor makes at most 100 iterations for *)
(* the last anchor of the page and at most (next anchor - anchor)        *)
(* iterations otherwise; no block it has passed contains the delivery    *)
(* marker, and when it stops before its bound the block it stands on     *)
(* contains the marker.                                                  *)
C10_SearchBounded ==
    pc \in {"search", "emit"} =>
        LET blocks == block3_other.blocks
            i      == PatternIndices(blocks)[cnt]
        IN  /\ j <= SearchBound
            /\ rds_idx_offset <= j
            /\ pc = "search" => j < SearchBound
            /\ \A o \in 0..(rds_idx_offset - 1) :
                   ~HasWord(blocks[i + 4 + o].v, "Delivery#")
            /\ (pc = "emit" /\ j < SearchBound)
               => HasWord(blocks[i + 4 + rds_idx_offset].v, "Delivery#")

C10_Witness ==
    /\ pc = "emit"
    /\ cnt = Len(PatternIndices(block3_other.blocks))
    /\ j = 100
    /\ rds_idx_offset = 100

-----------------------------------------------------------------------------
(* Properties of the line-item walk, checked on one-page documents *)

(* the anchor the walk is at, while the walk is on a page's anchors *)
AtAnchor ==
    /\ block3_other.defined
    /\ cnt \in 1..Len(PatternIndices(block3_other.blocks))
CurrentAnchor == PatternIndices(block3_other.blocks)[cnt]

(* the rows of df emitted for the anchor at block i *)
RowsOf(i) == {r \in 1..Len(df) : df[r].anchor = i}

DeliveryFieldsAbsent(item) ==
    /\ item.price = None
    /\ item.ext_price = None
    /\ item.delivery_id = None
    /\ item.tariff_code = None

(* C11: an anchor that is the last block of the page's block sequence is *)
(* processed without raising, and its line item is produced with price,  *)
(* ext_price, delivery_id and tariff_code absent.                        *)
C11_LastBlockAnchor ==
    LET n == Len(block3_other.blocks)
    IN  /\ (AtAnchor /\ CurrentAnchor = n) => pc # "error"
        /\ (block3_other.defined /\ n > 0 /\ IsAnchor(block3_other.blocks[n])
            /\ pc = "done")
           => /\ RowsOf(n) # {}
              /\ \A r \in RowsOf(n) : DeliveryFieldsAbsent(df[r].item)

(* the search of the anchor at hand ran loop_total iterations and met no *)
(* delivery line                                                         *)
SearchExhausted ==
    /\ AtAnchor
    /\ pc \in {"emit", "error"}
    /\ rds_idx_offset =
           LoopTotal(PatternIndices(block3_other.blocks), cnt)

(* C12: when the forward search of an anchor uses up its bound without   *)
(* finding a delivery line, a line item is still emitted for the anchor, *)
(* with delivery_id, tariff_code, price and ext_price absent.            *)
C12_ExhaustedSearchEmits ==
    [][(SearchExhausted /\ pc = "emit")
       => /\ pc' = "items"
          /\ Len(df') = Len(df) + 1
          /\ df'[Len(df')].anchor = CurrentAnchor
          /\ DeliveryFieldsAbsent(df'[Len(df')].item)]_vars

(* the qty block of the anchor at block i is missing or is no integer *)
BadQty(blocks, i) == i + 2 > Len(blocks) \/ ~IsInt(blocks[i + 2].v)

(* C13: an anchor whose qty block is missing or is not an integer        *)
(* produces no line item and does not fail the page: every other anchor  *)
(* of the page still produces its line item.                             *)
C13_BadQtySkipsAnchor ==
    LET blocks == block3_other.blocks
        pi     == PatternIndices(blocks)
    IN  /\ (AtAnchor /\ BadQty(blocks, CurrentAnchor)) => pc # "error"
        /\ (block3_other.defined /\ pc = "done")
           => \A c \in 1..Len(pi) :
                 IF BadQty(blocks, pi[c]) THEN RowsOf(pi[c]) = {}
                 ELSE RowsOf(pi[c]) # {}

-----------------------------------------------------------------------------
(* Properties of header resolution, checked on one-page documents *)

(* the page at hand has been classified r *)
Classified(r) ==
    page_no >= 1 /\ Len(role) = page_no /\ role[page_no] = r

(* the line that ends with the 'Currency' marker *)
CurrencyLine(text) ==
    text[Positions(text, LAMBDA t : t.k = "CUR")[1] - 1]

(* the commercial-terms lines of a first page *)
TermsOf(text) ==
    LET c == Positions(text, LAMBDA t : t.k = "CUR")[1]
    IN  SubSeq(text, c + 1, Len(text))

(* C14: on a FIRST page, a header-block field that cannot be extracted   *)
(* (a carton count that is no number, a commercial-terms block with      *)
(* fewer lines than expected) is set to its zero value, the other header *)
(* fields are still extracted and the page is processed further.         *)
C14_FieldFailureIsolated ==
    Classified("FIRST")
    => LET text == pages[page_no]
       IN  /\ ~(pc = "error" /\ err[2] \in 136..202)
           /\ init_page_values.currency
                  = Search(CurrencyLine(text).v, Upper3)
           /\ (Len(TermsOf(text)) < 4
               \/ TermsOf(text)[4].v[1] \notin Numerals)
              => init_page_values.cartons_count = IntV("0")

MarkerAt(text, m) == Positions(text, LAMBDA t : t.k = m)

ZeroValue(f) ==
    IF f = "cartons_count" THEN IntV("0")
    ELSE IF f \in {"cartons_net_weight", "cartons_gross_weight"}
    THEN FloatV("0.0")
    ELSE EmptyStr

(* header resolution of the page at hand did not abort, and found the   *)
(* invoice number inv and the date written date, with every             *)
(* header-block field at its zero value                                 *)
HeaderResolved(inv, date) ==
    /\ ~(pc = "error" /\ err[2] \in 104..240)
    /\ init_page_values.invoice_id = Str(<<inv>>)
    /\ init_page_values.transaction_date = Str(<<IsoOf[date]>>)
    /\ \A f \in BlockFields : init_page_values[f] = ZeroValue(f)

(* the line after the ' Invoice #' marker holds a 9-digit number and a *)
(* date                                                                *)
NumberAfterMarker(text) ==
    /\ MarkerAt(text, "INV") # <<>>
    /\ MarkerAt(text, "INV")[1] < Len(text)
    /\ LET ws == text[MarkerAt(text, "INV")[1] + 1].v
       IN  FirstWord(ws, Digits9) # "" /\ FirstWord(ws, DOMAIN IsoOf) # ""

(* C15 as stated: for a page that contains the marker "Invoice #"       *)
(* followed by a 9-digit invoice number and an mm/dd/yyyy date but no   *)
(* header-block marker, header resolution does not abort, invoice_id is *)
(* that number, transaction_date the date in ISO form and every         *)
(* header-block field is at its zero value.                             *)
C15_NumberAfterMarker ==
    (page_no = 1 /\ NumberAfterMarker(pages[1])
     /\ ~Contains(pages[1], "CUR"))
    => LET ws == pages[1][MarkerAt(pages[1], "INV")[1] + 1].v
       IN  HeaderResolved(FirstWord(ws, Digits9),
                          FirstWord(ws, DOMAIN IsoOf))

(* the text before the ' Invoice #' marker holds a date, the ' Date'    *)
(* label and then a 9-digit number                                      *)
NumberBeforeMarker(text) ==
    /\ MarkerAt(text, "DATE") # <<>>
    /\ MarkerAt(text, "INV") # <<>>
    /\ LET d == MarkerAt(text, "DATE")[1]
           m == MarkerAt(text, "INV")[1]
       IN  /\ 1 < d /\ d < m
           /\ text[d - 1].v # <<>>
           /\ Last(text[d - 1].v) \in DOMAIN IsoOf
           /\ FirstWord(JoinLines(SubSeq(text, d + 1, m - 1)), Digits9) # ""

(* C15 amended: for a page whose text before the ' Invoice #' marker    *)
(* holds an mm/dd/yyyy date, the ' Date' label and a 9-digit number,    *)
(* and that has no header-block marker, header resolution does not      *)
(* abort, invoice_id is that number, transaction_date the date in ISO   *)
(* form and every header-block field is at its zero value.              *)
C15_NumberBeforeMarker ==
    (page_no = 1 /\ NumberBeforeMarker(pages[1])
     /\ ~Contains(pages[1], "CUR"))
    => LET d == MarkerAt(pages[1], "DATE")[1]
           m == MarkerAt(pages[1], "INV")[1]
       IN  HeaderResolved(
               FirstWord(JoinLines(SubSeq(pages[1], d + 1, m - 1)), Digits9),
               Last(pages[1][d - 1].v))

C15_Witness ==
    /\ pc = "done"
    /\ role = <<"CONTINUATION">>
    /\ NumberBeforeMarker(pages[1])
    /\ init_page_values.invoice_id = Str(<<"900000001">>)
    /\ init_page_values.transaction_date = Str(<<"2024-01-15">>)
    /\ init_page_values.currency = EmptyStr

(* C16: after header extraction transaction_date is a valid ISO date    *)
(* parsed from the text or the sentinel 9999-12-31, and never null or   *)
(* absent, also when the text holds no date pattern.                    *)
C16_DateNeverNull ==
    (page_no >= 1 /\ ~(pc = "error" /\ err[2] \in {111, 114}))
    => \E d \in {IsoOf[w] : w \in DOMAIN IsoOf} \cup {Sentinel} :
          init_page_values.transaction_date = Str(<<d>>)

-----------------------------------------------------------------------------
(* Properties of the item fields, checked on one-page documents *)

(* the blocks at the anchor of row r are "157317-001 Style Name", "M", *)
(* "12", "HBG CN"                                                      *)
ScenarioRow(r) ==
    LET blocks == block3_other.blocks
        i      == df[r].anchor
    IN  /\ blocks[i].v = <<"157317-001", "Style", "Name">>
        /\ blocks[i + 1].v = <<"M">>
        /\ blocks[i + 2].v = <<"12">>
        /\ blocks[i + 3].v = <<"HBG", "CN">>

(* C17 as stated: for the anchor block "157317-001 Style Name" followed *)
(* by the blocks "M", "12", "HBG CN" the line item has style_color      *)
(* "157317-001", size "M", qty 12, product_family "HBG" and             *)
(* country_of_origin "CN".                                              *)
C17_ScenarioAsStated ==
    \A r \in 1..Len(df) :
        ScenarioRow(r)
        => /\ df[r].item.style_color = Str(<<"157317-001">>)
           /\ df[r].item.size = Str(<<"M">>)
           /\ df[r].item.qty = IntV("12")
           /\ df[r].item.product_family = Str(<<"HBG">>)
           /\ df[r].item.country_of_origin = Str(<<"CN">>)

(* C17 amended: for these blocks the line item has style_color equal to *)
(* the whole text of the anchor block ("157317-001 Style Name"), size   *)
(* absent (the size block holds no two uppercase letters), qty 12,      *)
(* product_family "HBG" and country_of_origin "CN".                     *)
C17_ScenarioFields ==
    \A r \in 1..Len(df) :
        ScenarioRow(r)
        => /\ df[r].item.style_color = Str(<<"157317-001", "Style", "Name">>)
           /\ df[r].item.size = None
           /\ df[r].item.qty = IntV("12")
           /\ df[r].item.product_family = Str(<<"HBG">>)
           /\ df[r].item.country_of_origin = Str(<<"CN">>)

C17_Witness ==
    /\ pc = "done"
    /\ \E r \in 1..Len(df) : ScenarioRow(r) /\ df[r].item.size = None

(* the product-family/country token of a block: its text before the *)
(* ' Country of Origin' label                                       *)
OriginToken(line) == SplitW(line.v, "CountryofOrigin")[1]

(* C18: the product-family/country token of block i+3 gives exactly one *)
(* of four outcomes: a 3-uppercase-letter code, whitespace and a        *)
(* 2-uppercase-letter code and nothing else set product_family and      *)
(* country_of_origin; exactly 3 uppercase letters set only              *)
(* product_family; exactly 2 uppercase letters set only                 *)
(* country_of_origin; every other token sets neither.                   *)
C18_OriginOutcome ==
    \A r \in 1..Len(df) :
        LET ws   == OriginToken(block3_other.blocks[df[r].anchor + 3])
            item == df[r].item
        IN  IF Len(ws) = 2 /\ ws[1] \in Upper3 /\ ws[2] \in Upper2
            THEN /\ item.product_family = Str(<<ws[1]>>)
                 /\ item.country_of_origin = Str(<<ws[2]>>)
            ELSE IF Len(ws) = 1 /\ ws[1] \in Upper3
            THEN /\ item.product_family = Str(ws)
                 /\ item.country_of_origin = None
            ELSE IF Len(ws) = 1 /\ ws[1] \in Upper2
            THEN /\ item.product_family = None
                 /\ item.country_of_origin = Str(ws)
            ELSE /\ item.product_family = None
                 /\ item.country_of_origin = None

-----------------------------------------------------------------------------
(* Properties of the summary, checked on the page loop *)

(* the lines of the totals block of a page *)
TotalsLines(text) ==
    IF MarkerAt(text, "TU") = <<>> \/ MarkerAt(text, "NORET") = <<>>
    THEN <<>>
    ELSE SubSeq(text, MarkerAt(text, "TU")[1] + 1,
                MarkerAt(text, "NORET")[1] - 1)

(* the last page at hand was resolved without raising, to 500 units,   *)
(* 10000.00 USD of merchandise, 250.00 USD of freight and 10250.00 USD *)
(* in total                                                            *)
SummaryResolved ==
    /\ ~(pc = "error" /\ err[2] \in 205..224)
    /\ df_summary # <<>>
    /\ LET row == df_summary[Len(df_summary)]
       IN  /\ row.total_units = IntV("500")
           /\ row.merchandise_total = FloatV("10000.0")
           /\ row.merchandise_total_unit = Str(<<"USD">>)
           /\ row.freight_total = FloatV("250.0")
           /\ row.freight_total_unit = Str(<<"USD">>)
           /\ row.total_invoice = FloatV("10250.0")
           /\ row.total_invoice_unit = Str(<<"USD">>)

(* C19 as stated: for the totals block "Total Units 500", "Merchandise *)
(* Total 10000.00 USD", "Freight 250.00 USD", "Invoice 10250.00 USD"   *)
(* (each value next to its label and followed by its unit) the summary *)
(* has total_units 500, merchandise_total 10000.00 USD, freight_total  *)
(* 250.00 USD and total_invoice 10250.00 USD, without raising.         *)
C19_LabelledTotals ==
    (Classified("LAST")
     /\ TotalsLines(pages[page_no])
            = <<L(<<"500">>), L(<<"MerchandiseTotal", "10000.00", "USD">>),
                L(<<"Freight", "250.00", "USD">>),
                L(<<"Invoice", "10250.00", "USD">>)>>)
    => SummaryResolved

(* C19 amended: for the totals block "Total Units 500", "Merchandise   *)
(* Total 10000.00 USD", "USD 250.00", "USD 10250.00" (the merchandise  *)
(* value after its label and before its unit, the freight and invoice  *)
(* lines with the unit first and the value last) the summary has       *)
(* total_units 500, merchandise_total 10000.00 USD, freight_total      *)
(* 250.00 USD and total_invoice 10250.00 USD, without raising.         *)
C19_PositionalTotals ==
    (Classified("LAST")
     /\ TotalsLines(pages[page_no])
            = <<L(<<"500">>), L(<<"MerchandiseTotal", "10000.00", "USD">>),
                L(<<"USD", "250.00">>), L(<<"USD", "10250.00">>)>>)
    => SummaryResolved

C19_Witness ==
    /\ pc = "done"
    /\ Classified("LAST")
    /\ TotalsLines(pages[page_no])
           = <<L(<<"500">>), L(<<"MerchandiseTotal", "10000.00", "USD">>),
               L(<<"USD", "250.00">>), L(<<"USD", "10250.00">>)>>
    /\ df_summary[Len(df_summary)].freight_total = FloatV("250.0")

-----------------------------------------------------------------------------
(* The tariff code, lines 312-322, character by character: a text is a *)
(* sequence of one-character strings                                   *)

(* Bound: the number of characters put before the varied 12 characters *)
MaxPad == 1

(* The texts: "9999.99.9999", the same with one character replaced, its *)
(* endings, and "abcdefghijkl", after up to MaxPad characters and       *)
(* before an optional blank                                             *)
ShapeText == <<"9", "9", "9", "9", ".", "9", "9", ".", "9", "9", "9", "9">>
LetterText == <<"a", "b", "c", "d", "e", "f", "g", "h", "i", "j", "k", "l">>
TariffBodies ==
    {ShapeText, LetterText}
    \cup {[ShapeText EXCEPT ![k] = c] :
            k \in 1..12, c \in {"0", ".", "a", " "}}
    \cup {SubSeq(ShapeText, k, 12) : k \in 2..13}
TariffPads == UNION {[1..n -> {"a", "9", " "}] : n \in 0..MaxPad}
TariffTexts ==
    {pre \o body \o post :
        pre \in TariffPads, body \in TariffBodies, post \in {<<>>, <<" ">>}}

InitTariff ==
    /\ pages = <<>>
    /\ page_no = 0
    /\ pc = "tariff"
    /\ err = <<>>
    /\ role = <<>>
    /\ init_page_values = InitPageValues
    /\ loc = [f \in HeaderFields |-> Undef]
    /\ block3_other = [defined |-> FALSE, blocks |-> <<>>, src |-> 0]
    /\ df = <<>>
    /\ df_summary = <<>>
    /\ cnt = 0
    /\ j = 0
    /\ rds_idx_offset = 0
    /\ arg \in TariffTexts
    /\ res = Undef
    /\ job = NewJob(TRUE, TRUE)
    /\ window = NewWindow
    /\ threads = <<>>
    /\ clock = 0
    /\ first_run = Undef

ApplyTariffCode ==
    /\ pc = "tariff"
    /\ res = Undef
    /\ res' = TariffCode(arg)
    /\ UNCHANGED <<pages, page_no, pc, err, role, init_page_values, loc,
                   block3_other, df, df_summary, cnt, j, rds_idx_offset, arg,
                   job, window, threads, clock, first_run>>

NextTariff == ApplyTariffCode

SpecTariff == InitTariff /\ [][NextTariff]_vars

(* the text before the tariff marker, without the blanks around it *)
TariffText == StripChars(arg)

(* the last 12 characters of a text are NNNN.NN.NNNN *)
EndsInTariffShape(t) ==
    /\ Len(t) >= 12
    /\ \A k \in 1..12 :
          LET c == t[Len(t) - 12 + k]
          IN  IF k \in {5, 8} THEN c = "." ELSE c \in Digits

(* C20: tariff_code is set if and only if the text before the tariff    *)
(* marker has at least 12 characters and its last 12 characters have    *)
(* the shape NNNN.NN.NNNN, and then it is exactly those 12 characters:  *)
(* a text ending in "9999.99.9999" gives that code, a text ending in    *)
(* "abcdefghijkl" leaves tariff_code absent.                            *)
C20_TariffCodeIff ==
    res # Undef
    => /\ res # None <=> EndsInTariffShape(TariffText)
       /\ res # None
          => res = StrC(SubSeq(TariffText, Len(TariffText) - 11,
                              Len(TariffText)))
       /\ (Len(TariffText) >= 12
           /\ SubSeq(TariffText, Len(TariffText) - 11, Len(TariffText))
                  = ShapeText)
          => res = StrC(ShapeText)
       /\ (Len(TariffText) >= 12
           /\ SubSeq(TariffText, Len(TariffText) - 11, Len(TariffText))
                  = LetterText)
          => res = None

C20_Witness ==
    /\ arg = ShapeText
    /\ res = StrC(ShapeText)

-----------------------------------------------------------------------------
(* Properties of the delivery block, checked on one-page documents *)

(* the words of the block used as delivery block of row r *)
FoundBlock(r) == block3_other.blocks[df[r].found].v

(* C21: rds_certified of a line item is true if and only if "RDS       *)
(* Certified" occurs in the block at the found offset, wherever in     *)
(* that block it occurs.                                               *)
C21_RdsAnywhere ==
    \A r \in 1..Len(df) :
        df[r].item.rds_certified = IntV("1")
        <=> HasWord(FoundBlock(r), "RDSCertified")

(* the text of the blocks from i+4 through the found block of row r, up *)
(* to the first tariff marker                                           *)
TextBeforeTariff(r) ==
    SplitW(JoinLines(SubSeq(block3_other.blocks, df[r].anchor + 4,
                            df[r].found)), "Tariffcode")[1]

(* C22: other_descr is the concatenation of the blocks from i+4 through *)
(* the found offset, cut at the tariff marker; when a tariff code was   *)
(* recognized, what was removed from its end is exactly that code:      *)
(* other_descr followed by tariff_code is the text before the marker.   *)
C22_OtherDescrCut ==
    \A r \in 1..Len(df) :
        IF df[r].item.tariff_code = None
        THEN df[r].item.other_descr = Str(TextBeforeTariff(r))
        ELSE df[r].item.other_descr.v \o df[r].item.tariff_code.v
                 = Str(TextBeforeTariff(r)).v

(* the whitespace-separated tokens of a block: its words that are not *)
(* empty (an empty word stands between two adjacent blanks)           *)
Tokens(ws) == SelectSeq(ws, LAMBDA w : w # "")

(* C23: price and ext_price of a line item are the second-to-last and *)
(* the last whitespace-separated token of the delivery/RDS block, for *)
(* any amount of whitespace between and after the tokens; neither is  *)
(* ever an empty string.                                              *)
C23_PriceTokens ==
    \A r \in 1..Len(df) :
        LET toks == Tokens(FoundBlock(r))
        IN  /\ Len(toks) >= 2
            /\ df[r].item.price = Str(<<toks[Len(toks) - 1]>>)
            /\ df[r].item.ext_price = Str(<<toks[Len(toks)]>>)
            /\ df[r].item.price # EmptyStr
            /\ df[r].item.ext_price # EmptyStr

-----------------------------------------------------------------------------
(* InvoiceProcessor (processors/invoice_processor.py)                      *)
(*                                                                         *)
(* extracted_data is [tables, full_text]: a table is its "data", a        *)
(* sequence of rows, a row a sequence of cells, a cell and a line of       *)
(* full_text a sequence of words separated by one blank.  A label is one   *)
(* word: "MainBody:" is "Main Body:", "CountryofOrigin:" is "Country of    *)
(* Origin:", "Tariffcode:" is "Tariff code:", "Delivery#" is "Delivery #", *)
(* "Customer#" is "Customer #".  A dict is a function from its keys to     *)
(* Python values.                                                          *)

(* Bound: rows below the header row of a table, lines of item text *)
MaxRows == 2

required_columns ==
    <<"transaction_date", "invoice_id", "dun_id", "invoice_to", "sold_to",
      "ship_to", "currency", "customer_id", "store_id", "sales_order_id",
      "customer_po", "terms_str", "ship_via", "department_id",
      "cartons_count", "cartons_net_weight", "cartons_gross_weight",
      "style_color", "style_color_descr", "size", "qty", "product_family",
      "country_of_origin", "rds_certified", "tariff_code", "delivery_id",
      "other_descr">>

RequiredColumns == {required_columns[i] : i \in 1..Len(required_columns)}

(* the longest prefix of a word matched by \d+, by [A-Z0-9]+ (ignoring   *)
(* case) and by \d+\.\d+\.\d+; "" when the word has no such prefix        *)
DigitsPrefixOf ==
    ("5" :> "5") @@ ("12" :> "12") @@ ("12345678" :> "12345678")
    @@ ("157317-001" :> "157317") @@ ("157318-002" :> "157318")
    @@ ("87654321" :> "87654321")
    @@ ("9999.99.9999" :> "9999") @@ ("01/15/2024" :> "01")
    @@ ("13/45/2024" :> "13")

AlnumPrefixOf ==
    DigitsPrefixOf
    @@ ("M" :> "M") @@ ("CN" :> "CN") @@ ("EUR" :> "EUR")
    @@ ("Jacket" :> "Jacket") @@ ("Cotton" :> "Cotton")
    @@ ("Nylon" :> "Nylon") @@ ("Size" :> "Size") @@ ("Date" :> "Date")
    @@ ("MainBody:" :> "Main") @@ ("Lining:" :> "Lining")
    @@ ("Trim:" :> "Trim") @@ ("CountryofOrigin:" :> "Country")
    @@ ("Tariffcode:" :> "Tariff") @@ ("Delivery#" :> "Delivery")
    @@ ("Customer#" :> "Customer") @@ ("Currency" :> "Currency")
    @@ ("Style-Color" :> "Style") @@ ("Total" :> "Total")

DigitsPrefix(w) == IF w \in DOMAIN DigitsPrefixOf THEN DigitsPrefixOf[w] ELSE ""

AlnumPrefix(w) == IF w \in DOMAIN AlnumPrefixOf THEN AlnumPrefixOf[w] ELSE ""

(* [A-Z]{2,} ignoring case: at least two letters at the start of the word *)
AlphaPrefix(w) ==
    IF w \in DOMAIN AlnumPrefixOf \ (DOMAIN DigitsPrefixOf \cup {"M"})
    THEN AlnumPrefixOf[w] ELSE ""

TariffPrefix(w) == IF w \in TariffCodes THEN w ELSE ""

DatePrefix(w) == IF w \in DateShape THEN w ELSE ""

(* int(s) of a digit string, as the decimal numeral Python prints *)
IntOfDigits(d) == IF d = "01" THEN "1" ELSE d

(* re.search(label \s* (group), text): the group after the first        *)
(* occurrence of the label that is followed by a word the group matches; *)
(* "" when there is no match                                             *)
AfterLabel(ws, label, Group(_)) ==
    LET hits == SelectSeq([i \in 1..Len(ws) |-> i],
                    LAMBDA i : /\ ws[i] = label
                               /\ i < Len(ws)
                               /\ Group(ws[i + 1]) # "")
    IN  IF hits = <<>> THEN "" ELSE Group(ws[hits[1] + 1])

(* full_text as one run of words: \s* and \s+ match line ends too *)
TextWords(full_text) == Concat(full_text)

(* lines 83-97: data[1][idx] of every table whose header cell idx holds  *)
(* the label; a later cell or table overrides an earlier one            *)
RowField(data, label, cur) ==
    LET hits == SelectSeq([i \in 1..Len(data[1]) |-> i],
                    LAMBDA i : HasWord(data[1][i], label)
                               /\ i <= Len(data[2]))
    IN  IF hits = <<>> THEN cur ELSE StrW(data[2][Last(hits)])

RECURSIVE TableField(_, _, _)
TableField(tables, label, cur) ==
    IF tables = <<>> THEN cur
    ELSE TableField(Tail(tables), label,
                    IF Len(Head(tables)) < 2 THEN cur
                    ELSE RowField(Head(tables), label, cur))

(* not value: None and '' are false *)
Falsy(v) == v = None \/ v = EmptyStr

(* lines 77-196; the tables and texts of InvoiceInputs carry no sales    *)
(* order, PO, store, carton, weight or address label, so lines 92-97,    *)
(* 104-170 and 193 leave those fields at None                            *)
HeaderInfo(tab, cust, date, dlv, dun) ==
    [col \in RequiredColumns |->
        CASE col = "currency" -> StrW(<<"USD">>)
          [] col = "customer_id" ->
                 IF Falsy(tab) /\ cust # "" THEN StrW(<<cust>>) ELSE tab
          [] col = "transaction_date" ->
                 IF date \in DOMAIN IsoOf THEN StrW(<<IsoOf[date]>>)
                 ELSE StrW(<<Sentinel>>)
          [] col = "delivery_id" ->
                 IF dlv = "" THEN None ELSE StrW(<<dlv>>)
          [] col = "dun_id" ->
                 IF dun = "" THEN None ELSE StrW(<<DunOf[dun]>>)
          [] OTHER -> None]

ExtractHeaderInfo(tables, full_text) ==
    Bind(TextWords(full_text), LAMBDA ws :
        Bind(<<TableField(tables, "Customer#", None),
               AfterLabel(ws, "Customer#", DigitsPrefix),
               AfterLabel(ws, "Date", DatePrefix),
               AfterLabel(ws, "Delivery#", DigitsPrefix),
               FirstWord(ws, DOMAIN DunOf)>>,
             LAMBDA f : HeaderInfo(f[1], f[2], f[3], f[4], f[5])))

(* ' '.join(str(cell) for cell in row if cell).strip() *)
RowText(row) == Concat(row)

(* re.search(r'Size\s+[A-Z0-9]+') and the like: the label is followed by *)
(* a word the group matches                                              *)
HasAfter(ws, label, Group(_)) == AfterLabel(ws, label, Group) # ""

SkipTexts == {"Style-Color", "Description", "Size", "Qty", "Total",
              "Subtotal", "Tax", "GrandTotal"}

(* lines 270-316: at least two of the seven positive patterns *)
PositiveMatches(ws) ==
    LET hit(b) == IF b THEN 1 ELSE 0
    IN  hit(\E i \in 1..Len(ws) : ws[i] \in StyleCodes)
        + hit(HasAfter(ws, "Size", AlnumPrefix))
        + hit(HasWord(ws, "MainBody:"))
        + hit(HasWord(ws, "Trim:"))
        + hit(HasWord(ws, "Lining:"))
        + hit(HasWord(ws, "CountryofOrigin:"))
        + hit(HasWord(ws, "Tariffcode:"))

IsLineItemRow(row) ==
    Bind(RowText(row), LAMBDA ws :
        /\ ws # <<>>
        /\ ~ (Len(ws) = 1 /\ ws[1] \in SkipTexts)
        /\ PositiveMatches(ws) >= 2)

(* s.strip() of a text whose removed words left "" behind *)
RECURSIVE StripWords(_)
StripWords(ws) ==
    IF ws = <<>> THEN <<>>
    ELSE IF Head(ws) = "" THEN StripWords(Tail(ws))
    ELSE IF Last(ws) = "" THEN StripWords(SubSeq(ws, 1, Len(ws) - 1))
    ELSE ws

DescEndMarkers == {"MainBody:", "Trim:", "Lining:", "CountryofOrigin:",
                   "Tariffcode:"}

(* lines 411-432: the text from the style code to the first material,   *)
(* origin or tariff label after it, without the style code; no word of  *)
(* the lexicon starts or ends with "-" or ":" there                     *)
DescrAfter(ws, style) ==
    Bind(Positions(ws, LAMBDA w : w = style)[1], LAMBDA pos :
        Bind(SelectSeq([i \in 1..Len(ws) |-> i],
                 LAMBDA i : i > pos /\ ws[i] \in DescEndMarkers),
             LAMBDA ends :
                 Bind(SubSeq(ws, pos, (IF ends = <<>> THEN Len(ws) + 1
                                       ELSE ends[1]) - 1),
                      LAMBDA text :
                          StripWords([i \in 1..Len(text) |->
                              IF text[i] = style THEN "" ELSE text[i]]))))

StyleColorDescr(ws) ==
    Bind(FirstWord(ws, StyleCodes), LAMBDA style :
        IF style = "" THEN <<>> ELSE DescrAfter(ws, style))

(* [^;\n]+ after a label: the rest of the cell *)
RestAfter(ws, label) ==
    LET hits == SelectSeq([i \in 1..Len(ws) |-> i],
                    LAMBDA i : ws[i] = label /\ i < Len(ws))
    IN  IF hits = <<>> THEN <<>> ELSE SubSeq(ws, hits[1] + 1, Len(ws))

(* lines 435-455: "Main Body: ..", "Trim1: ..", "Lining: .." joined by   *)
(* "; " (the word ";")                                                   *)
MaterialSpecs(ws) ==
    LET spec(label, name) ==
            IF RestAfter(ws, label) = <<>> THEN <<>>
            ELSE <<(<<name>> \o RestAfter(ws, label))>>
        specs == spec("MainBody:", "MainBody:") \o spec("Trim:", "Trim1:")
                 \o spec("Lining:", "Lining:")
    IN  Concat([i \in 1..Len(specs) |->
                   IF i = 1 THEN specs[i] ELSE <<";">> \o specs[i]])

(* lines 380-470: the fields the patterns find in the cell *)
FoundFields(qty, style, size, descr, other, ctry, tar, dlv) ==
    LET keys == {k \in RequiredColumns :
                    \/ k = "qty" /\ qty # ""
                    \/ k = "style_color" /\ style # ""
                    \/ k = "size" /\ size # ""
                    \/ k = "style_color_descr" /\ descr # <<>>
                    \/ k = "other_descr" /\ other # <<>>
                    \/ k = "country_of_origin" /\ ctry # ""
                    \/ k = "tariff_code" /\ tar # ""
                    \/ k = "delivery_id" /\ dlv # ""}
    IN  [k \in keys |->
            CASE k = "qty" -> IntW(IntOfDigits(qty))
              [] k = "style_color" -> StrW(<<style>>)
              [] k = "size" -> StrW(<<size>>)
              [] k = "style_color_descr" -> StrW(descr)
              [] k = "other_descr" -> StrW(other)
              [] k = "country_of_origin" -> StrW(<<ctry>>)
              [] k = "tariff_code" -> StrW(<<tar>>)
              [] k = "delivery_id" -> StrW(<<dlv>>)]

ParsedFields(ws) ==
    Bind(<<DigitsPrefix(ws[1]),
           FirstWord(ws, StyleCodes),
           AfterLabel(ws, "Size", AlnumPrefix),
           StyleColorDescr(ws),
           MaterialSpecs(ws),
           AfterLabel(ws, "CountryofOrigin:", AlphaPrefix),
           AfterLabel(ws, "Tariffcode:", TariffPrefix),
           AfterLabel(ws, "Delivery#", DigitsPrefix)>>,
         LAMBDA f : FoundFields(f[1], f[2], f[3], f[4], f[5], f[6], f[7],
                                f[8]))

(* the empty dict; None is returned as NoItem *)
EmptyDict == [k \in {} |-> None]
NoItem == None

(* lines 380-477: the item of the first cell of a row, or None *)
(* lines 472-474: qty defaults to 1 *)
DefaultQty(item) ==
    IF "qty" \in DOMAIN item THEN item
    ELSE [k \in DOMAIN item \cup {"qty"} |->
             IF k = "qty" THEN IntW("1") ELSE item[k]]

ParseCompressedLineItem(row) ==
    IF row = <<>> \/ row[1] = <<>> THEN NoItem
    ELSE Bind(ParsedFields(row[1]), LAMBDA item :
             Bind(DefaultQty(item), LAMBDA whole :
                 IF Cardinality(DOMAIN whole) > 1 THEN whole ELSE NoItem))

(* lines 198-238 *)
RowItem(row) ==
    IF IsLineItemRow(row) THEN ParseCompressedLineItem(row) ELSE NoItem

TableItems(data) ==
    LET first == IF Len(data[1]) > 0 THEN data[1][1] ELSE <<>>
        has   == \/ HasWord(first, "Style-Color")
                 \/ \E r \in 1..Len(data) : IsLineItemRow(data[r])
    IN  IF Len(data) < 2 \/ ~ has THEN <<>>
        ELSE SelectSeq([r \in 1..(Len(data) - 1) |-> RowItem(data[r + 1])],
                       LAMBDA it : it # NoItem)

ExtractLineItems(tables) ==
    Concat([t \in 1..Len(tables) |-> TableItems(tables[t])])

(* lines 241-266 *)
ExtractLineItemsFromText(full_text) ==
    SelectSeq([r \in 1..Len(full_text) |->
                  IF full_text[r] = <<>> THEN NoItem
                  ELSE RowItem(<<full_text[r]>>)],
              LAMBDA it : it # NoItem)

(* record = header_info.copy(); record.update(item) *)
UpdateHeaderWins(header, item) ==
    [k \in DOMAIN header \cup DOMAIN item |->
        IF k \in DOMAIN header THEN header[k] ELSE item[k]]

Update(header, item) ==
    [k \in DOMAIN header \cup DOMAIN item |->
        IF k \in DOMAIN item THEN item[k] ELSE header[k]]

(* Inputs of transform_to_structured_format *)
ItemLeads == {<<>>, <<"5">>}
ItemStyles == {<<>>, <<"157317-001">>, <<"157317-001", "Jacket">>}
ItemSizes == {<<>>, <<"Size", "M">>}
ItemTails ==
    {<<>>, <<"MainBody:", "Cotton">>,
     <<"MainBody:", "Cotton", "Lining:", "Nylon">>,
     <<"CountryofOrigin:", "CN", "Tariffcode:", "9999.99.9999">>,
     <<"Delivery#", "12345678">>}

ItemCells ==
    {a \o b \o c \o d : a \in ItemLeads, b \in ItemStyles,
                        c \in ItemSizes, d \in ItemTails}

(* the cells of tables and texts with more than one item *)
RowCells ==
    {<<"5", "157317-001", "Jacket", "Size", "M", "Delivery#", "12345678">>,
     <<"157318-002", "Size", "M", "MainBody:", "Cotton">>,
     <<"Jacket", "Size", "M">>,
     <<"Total">>}

RECURSIVE SeqsUpTo(_, _)
SeqsUpTo(S, n) ==
    IF n = 0 THEN {<<>>}
    ELSE LET shorter == SeqsUpTo(S, n - 1)
         IN  shorter \cup {Append(s, x) : s \in shorter, x \in S}

ItemRows ==
    {<<(<<c>>)>> : c \in ItemCells}
    \cup {[i \in 1..Len(cs) |-> <<cs[i]>>] :
             cs \in SeqsUpTo(RowCells, MaxRows) \ {<<>>}}

HeaderTable ==
    << <<(<<"Customer#">>), <<"Currency">>>>,
       <<(<<"12345678">>), <<"EUR">>>> >>

ItemTables ==
    {<< <<(<<"Style-Color">>)>> >> \o rows : rows \in ItemRows}
    \cup {[i \in 1..2 |-> <<c>>] : c \in RowCells}

TableLists ==
    {<<>>, <<HeaderTable>>}
    \cup {<<t>> : t \in ItemTables}
    \cup {<<HeaderTable, t>> : t \in ItemTables}

HeaderText ==
    << <<"Date", "01/15/2024">>, <<"Customer#", "87654321">>,
       <<"Currency", "EUR">>, <<"Delivery#", "87654321">> >>

FullTexts ==
    {<<>>, << <<"Date", "13/45/2024">> >>}
    \cup {HeaderText \o ls : ls \in SeqsUpTo(RowCells, MaxRows)}

InvoiceInputs ==
    {[tables |-> ts, full_text |-> ft] : ts \in TableLists, ft \in FullTexts}

InitInvoice ==
    /\ pages = <<>>
    /\ page_no = 0
    /\ pc = "transform"
    /\ err = <<>>
    /\ role = <<>>
    /\ init_page_values = InitPageValues
    /\ loc = [f \in HeaderFields |-> Undef]
    /\ block3_other = [defined |-> FALSE, blocks |-> <<>>, src |-> 0]
    /\ df = <<>>
    /\ df_summary = <<>>
    /\ cnt = 0
    /\ j = 0
    /\ rds_idx_offset = 0
    /\ arg \in InvoiceInputs
    /\ res = [header_info |-> EmptyDict, line_items |-> <<>>,
              from |-> "none", records |-> <<>>, columns |-> <<>>]
    /\ job = NewJob(TRUE, TRUE)
    /\ window = NewWindow
    /\ threads = <<>>
    /\ clock = 0
    /\ first_run = Undef

(* line 57 *)
TransformHeader ==
    /\ pc = "transform"
    /\ res' = [res EXCEPT !.header_info =
                   ExtractHeaderInfo(arg.tables, arg.full_text),
                          !.columns = required_columns]
    /\ pc' = "line_items"
    /\ UNCHANGED <<pages, page_no, err, role, init_page_values, loc,
                   block3_other, df, df_summary, cnt, j, rds_idx_offset, arg,
                   job, window, threads, clock, first_run>>

(* line 60 *)
TransformTables ==
    /\ pc = "line_items"
    /\ res' = [res EXCEPT !.line_items = ExtractLineItems(arg.tables),
                          !.from = "tables"]
    /\ pc' = IF res'.line_items = <<>> THEN "fallback" ELSE "records"
    /\ UNCHANGED <<pages, page_no, err, role, init_page_values, loc,
                   block3_other, df, df_summary, cnt, j, rds_idx_offset, arg,
                   job, window, threads, clock, first_run>>

(* lines 63-64 *)
TransformText ==
    /\ pc = "fallback"
    /\ res' = [res EXCEPT !.line_items =
                   ExtractLineItemsFromText(arg.full_text),
                          !.from = "text"]
    /\ pc' = "records"
    /\ UNCHANGED <<pages, page_no, err, role, init_page_values, loc,
                   block3_other, df, df_summary, cnt, j, rds_idx_offset, arg,
                   job, window, threads, clock, first_run>>

(* lines 67-75: the frame keeps the required columns when there is no   *)
(* record, and takes the keys of the records otherwise                  *)
TransformRecords ==
    /\ pc = "records"
    /\ res' = [res EXCEPT !.records =
                   [i \in 1..Len(res.line_items) |->
                       Update(res.header_info, res.line_items[i])]]
    /\ pc' = "returned"
    /\ UNCHANGED <<pages, page_no, err, role, init_page_values, loc,
                   block3_other, df, df_summary, cnt, j, rds_idx_offset, arg,
                   job, window, threads, clock, first_run>>

NextInvoice ==
    \/ TransformHeader
    \/ TransformTables
    \/ TransformText
    \/ TransformRecords

SpecInvoice == InitInvoice /\ [][NextInvoice]_vars


-----------------------------------------------------------------------------
(* Properties of InvoiceProcessor *)

Returned == pc = "returned"

(* the words of the tables and of the text handed to the processor *)
InputWords ==
    UNION {{arg.tables[t][r][c][w] : w \in 1..Len(arg.tables[t][r][c])} :
              <<t, r, c>> \in
                 {<<t, r, c>> \in (1..Len(arg.tables)) \X (1..(MaxRows + 2))
                                   \X (1..2) :
                     /\ r <= Len(arg.tables[t])
                     /\ c <= Len(arg.tables[t][r])}}
    \cup UNION {{arg.full_text[l][w] : w \in 1..Len(arg.full_text[l])} :
                   l \in 1..Len(arg.full_text)}

(* what the input literally holds: its words, the part of a word a      *)
(* pattern captures, a date of the input in ISO form, and the "; " that *)
(* joins two material specifications                                    *)
InputPieces ==
    InputWords \cup {";"}
    \cup {AlnumPrefix(w) : w \in InputWords}
    \cup {DunOf[w] : w \in InputWords \cap DOMAIN DunOf}
    \cup {IsoOf[w] : w \in InputWords \cap DOMAIN IsoOf}

InputLiteral(v) ==
    CASE v.t = "str" -> \A p \in 1..Len(v.v) : v.v[p] \in InputPieces
      [] v.t = "int" ->
             v.v[1] \in {IntOfDigits(DigitsPrefix(w)) : w \in InputWords}
      [] OTHER -> FALSE

(* C25: every field of an output record is absent (None), the sentinel  *)
(* date, or a value literally present in the input: no currency code and *)
(* no quantity is invented                                               *)
C25_NoInventedValue ==
    Returned =>
        \A r \in 1..Len(res.records) : \A col \in RequiredColumns :
            LET v == res.records[r][col]
            IN  \/ v = None
                \/ col = "transaction_date" /\ v = StrW(<<Sentinel>>)
                \/ InputLiteral(v)


(* C28: transform_to_structured_format returns one record per line item, *)
(* each carrying every header field with the item's own fields           *)
(* overriding the header's; the items come from the text only when the   *)
(* tables gave none, so they are all from the tables or all from the     *)
(* text; without items the frame is empty and has the required columns   *)
C28_OneRecordPerItem ==
    Returned =>
        /\ Len(res.records) = Len(res.line_items)
        /\ \A i \in 1..Len(res.records) :
              /\ DOMAIN res.records[i] = RequiredColumns
              /\ \A col \in RequiredColumns :
                    res.records[i][col] =
                        IF col \in DOMAIN res.line_items[i]
                        THEN res.line_items[i][col]
                        ELSE res.header_info[col]
        /\ res.from = "text" <=> ExtractLineItems(arg.tables) = <<>>
        /\ res.line_items = IF res.from = "text"
                            THEN ExtractLineItemsFromText(arg.full_text)
                            ELSE ExtractLineItems(arg.tables)
        /\ res.columns = required_columns
        /\ res.line_items = <<>> => res.records = <<>>

(* two items found in the text after the tables gave none, the first    *)
(* with a delivery number of its own replacing the header's             *)
C28_Witness ==
    /\ Returned
    /\ arg.tables # <<>>
    /\ res.from = "text"
    /\ Len(res.records) = 2
    /\ res.header_info["delivery_id"] = StrW(<<"87654321">>)
    /\ res.records[1]["delivery_id"] = StrW(<<"12345678">>)
    /\ res.records[2]["delivery_id"] = StrW(<<"87654321">>)
    /\ res.records[1]["currency"] = res.header_info["currency"]


(* C26: for an anchor that is not the last of its page, with the next    *)
(* anchor at block n, every block the forward search inspects and the    *)
(* block used as the delivery block lie before n, so no line item takes  *)
(* its delivery fields from the next item's blocks                       *)
C26_SearchBeforeNextAnchor ==
    block3_other.defined =>
        LET blocks == block3_other.blocks
            pi     == PatternIndices(blocks)
        IN  /\ (pc = "search" /\ cnt < Len(pi)
                /\ pi[cnt] + 4 + rds_idx_offset <= Len(blocks))
               => pi[cnt] + 4 + rds_idx_offset < pi[cnt + 1]
            /\ \A r \in 1..Len(df) : \A c \in 1..(Len(pi) - 1) :
                  (df[r].src = block3_other.src /\ df[r].anchor = pi[c])
                  => df[r].found < pi[c + 1]


(* the first page of the document has neither the header-block marker   *)
(* nor the totals marker, and holds at least one anchor                 *)
ContinuationBeforeFirst ==
    /\ page_no = 1
    /\ Classified("CONTINUATION")
    /\ block3_other.defined
    /\ PatternIndices(block3_other.blocks) # <<>>

(* C27: a page without the header-block marker and without the totals   *)
(* marker that comes before any first page and holds anchors is taken    *)
(* as a continuation page and does not fail; the line items it produces  *)
(* carry the zero value in every header-block field                     *)
C27_ContinuationBeforeFirst ==
    ContinuationBeforeFirst =>
        /\ pc # "error"
        /\ \A r \in 1..Len(df) :
              \A f \in BlockFields : df[r].header[f] = ZeroValue(f)
        /\ pc = "loop" => Len(df) = Len(PatternIndices(block3_other.blocks))


-----------------------------------------------------------------------------
(* Two runs on the same input                                              *)
(*                                                                         *)
(* The script: the first run reads pages drawn from the page set; when it  *)
(* has ended, first_run keeps its pages and its outcome, the script is     *)
(* started again and reads the same pages.  The processor:                 *)
(* transform_to_structured_format is called on tables and text,            *)
(* first_run keeps them and the frame returned, and the same InvoiceProcessor is     *)
(* called again with them.  The clock of the machine goes on between the   *)
(* two runs.                                                               *)

(* Bound: ticks of the clock *)
MaxClock == 1

(* the outcome of a run of the script: how it ended, the two frames and *)
(* the header                                                           *)
Outcome == <<pc, err, df, df_summary, init_page_values>>

(* the page texts of the first run *)
TwicePageSet == {PFirst, PCont, PContB, PLast, PSingle, PNoMarker}

(* the script, or the processor with its arguments *)
InitTwice == Init \/ InitInvoice

FirstRunPage ==
    /\ first_run = Undef
    /\ \E text \in TwicePageSet : StartPage(text)

SecondRunPage ==
    /\ first_run # Undef
    /\ pc = "loop"
    /\ Len(pages) < Len(first_run.input)
    /\ StartPage(first_run.input[Len(pages) + 1])

(* line 93: the reader has no page left; the second run has the pages *)
(* of the first                                                       *)
EndRun ==
    /\ pc = "loop"
    /\ IF first_run = Undef THEN TRUE
       ELSE Len(pages) = Len(first_run.input)
    /\ EndDocument

(* a run has ended *)
RunEnded == pc \in {"done", "error", "returned"}

(* time passes between the two runs *)
Tick ==
    /\ RunEnded
    /\ first_run = Undef
    /\ clock < MaxClock
    /\ clock' = clock + 1
    /\ UNCHANGED <<pages, page_no, pc, err, role, init_page_values, loc,
                   block3_other, df, df_summary, cnt, j, rds_idx_offset, arg,
                   res, job, window, threads, first_run>>

(* test.py lines 1-91, the script started again: a new interpreter has  *)
(* no name of the first run, and lines 6-91 bind pdf_file, df,          *)
(* df_summary, pages and init_page_values                               *)
Restart ==
    /\ pc \in {"done", "error"}
    /\ first_run = Undef
    /\ first_run' = [input |-> pages, outcome |-> Outcome]
    /\ pages' = <<>>
    /\ page_no' = 0
    /\ pc' = "loop"
    /\ err' = <<>>
    /\ role' = <<>>
    /\ init_page_values' = InitPageValues
    /\ loc' = [f \in HeaderFields |-> Undef]
    /\ block3_other' = [defined |-> FALSE, blocks |-> <<>>, src |-> 0]
    /\ cnt' = 0
    /\ j' = 0
    /\ rds_idx_offset' = 0
    /\ df' = <<>>
    /\ df_summary' = <<>>
    /\ UNCHANGED <<arg, res, job, window, threads, clock>>

(* invoice_processor.py lines 46-49, the second call: the processor and *)
(* its arguments are the objects of the first call, as the first call   *)
(* has left them, and the names of the function are new                 *)
CallAgain ==
    /\ pc = "returned"
    /\ first_run = Undef
    /\ first_run' = [input |-> arg, outcome |-> res]
    /\ pc' = "transform"
    /\ res' = [header_info |-> EmptyDict, line_items |-> <<>>,
               from |-> "none", records |-> <<>>, columns |-> <<>>]
    /\ UNCHANGED <<pages, page_no, err, role, init_page_values, loc,
                   block3_other, df, df_summary, cnt, j, rds_idx_offset, arg,
                   job, window, threads, clock>>

NextTwice ==
    \/ FirstRunPage
    \/ SecondRunPage
    \/ FirstPage
    \/ LastPage
    \/ ContinuationPage
    \/ BeginItem
    \/ SearchStep
    \/ EmitItem
    \/ EndPage
    \/ EndRun
    \/ Restart
    \/ TransformHeader
    \/ TransformTables
    \/ TransformText
    \/ TransformRecords
    \/ CallAgain
    \/ Tick

SpecTwice == InitTwice /\ [][NextTwice]_vars

(* the second run has ended *)
SecondRunEnded == first_run # Undef /\ RunEnded

-----------------------------------------------------------------------------
(* PDFProcessor.process (processors/pdf_processor.py, lines 60-180)        *)
(*                                                                         *)
(* arg is what the file makes each call of process do: the verdict of      *)
(* validate_job, and for _get_pages_to_process, _extract_text_enhanced,    *)
(* _extract_tables_enhanced and _extract_metadata_enhanced either the      *)
(* size of what they return or the exception they raise.  A datetime is    *)
(* "now", None is "None".                                                  *)

(* Bound: pages, text blocks and tables a call returns *)
MaxCount == 2

(* base.py lines 69-89: (is_valid, error_msg) *)
ValidationMessage ==
    ("valid" :> "None")
    @@ ("missing" :> "Input file does not exist")
    @@ ("type" :> "Cannot process file type")
    @@ ("error" :> "Validation error")

(* str(e) of the exceptions a call raises; an exception may have no text *)
ExceptionTexts == {"", "boom"}

Raises(text) == [raises |-> TRUE, text |-> text, count |-> 0]
Returns(n)   == [raises |-> FALSE, text |-> "None", count |-> n]

CallOutcomes ==
    {Raises(t) : t \in ExceptionTexts} \cup {Returns(n) : n \in 0..MaxCount}

ProcessInputs ==
    [validation : DOMAIN ValidationMessage,
     pages      : CallOutcomes,
     text       : {Raises("boom"), Returns(1)},
     tables     : {Raises(""), Returns(MaxCount)},
     metadata   : {Raises("boom"), Returns(0)}]

InitProcess ==
    /\ pages = <<>>
    /\ page_no = 0
    /\ pc = "process"
    /\ err = <<>>
    /\ role = <<>>
    /\ init_page_values = InitPageValues
    /\ loc = [f \in HeaderFields |-> Undef]
    /\ block3_other = [defined |-> FALSE, blocks |-> <<>>, src |-> 0]
    /\ df = <<>>
    /\ df_summary = <<>>
    /\ cnt = 0
    /\ j = 0
    /\ rds_idx_offset = 0
    /\ arg \in ProcessInputs
    /\ res = Undef
    /\ job \in {NewJob(t, b) : t \in BOOLEAN, b \in BOOLEAN}
    /\ window = NewWindow
    /\ threads = <<>>
    /\ clock = 0
    /\ first_run = Undef

(* the variables process leaves alone *)
ProcessFrame ==
    UNCHANGED <<pages, page_no, role, init_page_values, loc, block3_other,
                df, df_summary, cnt, j, rds_idx_offset, arg, res, window,
                threads, clock, first_run>>

(* the statement at a line raised: inside the try block (lines 63-171)  *)
(* control goes to the except branch of line 172, anywhere else the     *)
(* exception leaves process                                             *)
Caught(line, text) ==
    /\ pc' = IF line \in 63..171 THEN "except" ELSE "process_raised"
    /\ err' = <<text>>

(* lines 64-66 *)
ProcessStart ==
    /\ pc = "process"
    /\ job' = [job EXCEPT !.status = "PROCESSING", !.started_at = "now"]
    /\ pc' = "validate"
    /\ UNCHANGED err
    /\ ProcessFrame

(* lines 69-77 *)
ProcessValidate ==
    /\ pc = "validate"
    /\ IF arg.validation # "valid"
       THEN /\ job' = [job EXCEPT
                          !.status = "FAILED",
                          !.error_message = ValidationMessage[arg.validation],
                          !.completed_at = "now"]
            /\ pc' = "process_returned"
       ELSE /\ pc' = "get_pages"
            /\ UNCHANGED job
    /\ UNCHANGED err
    /\ ProcessFrame

(* lines 84-94 *)
ProcessPages ==
    /\ pc = "get_pages"
    /\ IF arg.pages.raises
       THEN Caught(85, arg.pages.text) /\ UNCHANGED job
       ELSE /\ UNCHANGED err
            /\ IF arg.pages.count = 0
               THEN /\ job' = [job EXCEPT
                                  !.status = "FAILED",
                                  !.error_message = "No pages to process",
                                  !.completed_at = "now"]
                    /\ pc' = "process_returned"
               ELSE /\ pc' = "extract_text"
                    /\ UNCHANGED job
    /\ ProcessFrame

(* lines 97-100 *)
ProcessText ==
    /\ pc = "extract_text"
    /\ IF ~job.extract_text
       THEN pc' = "extract_tables" /\ UNCHANGED <<job, err>>
       ELSE IF arg.text.raises
       THEN Caught(98, arg.text.text) /\ UNCHANGED job
       ELSE /\ job' = [job EXCEPT !.text_blocks_extracted = arg.text.count]
            /\ pc' = "extract_tables"
            /\ UNCHANGED err
    /\ ProcessFrame

(* lines 103-106 *)
ProcessTables ==
    /\ pc = "extract_tables"
    /\ IF ~job.extract_tables
       THEN pc' = "metadata" /\ UNCHANGED <<job, err>>
       ELSE IF arg.tables.raises
       THEN Caught(104, arg.tables.text) /\ UNCHANGED job
       ELSE /\ job' = [job EXCEPT !.tables_extracted = arg.tables.count]
            /\ pc' = "metadata"
            /\ UNCHANGED err
    /\ ProcessFrame

(* lines 109-124 *)
ProcessComplete ==
    /\ pc = "metadata"
    /\ IF arg.metadata.raises
       THEN Caught(110, arg.metadata.text) /\ UNCHANGED job
       ELSE /\ job' = [job EXCEPT !.pages_processed = arg.pages.count,
                                  !.status = "COMPLETED",
                                  !.completed_at = "now"]
            /\ pc' = "process_returned"
            /\ UNCHANGED err
    /\ ProcessFrame

(* an except branch that only records the failure *)
ProcessExceptStatusOnly ==
    /\ pc = "except"
    /\ job' = [job EXCEPT !.status = "FAILED"]
    /\ pc' = "process_returned"
    /\ UNCHANGED err
    /\ ProcessFrame

(* lines 172-180 *)
ProcessExcept ==
    /\ pc = "except"
    /\ job' = [job EXCEPT !.status = "FAILED",
                          !.error_message = err[1],
                          !.completed_at = "now"]
    /\ pc' = "process_returned"
    /\ UNCHANGED err
    /\ ProcessFrame

NextProcess ==
    \/ ProcessStart
    \/ ProcessValidate
    \/ ProcessPages
    \/ ProcessText
    \/ ProcessTables
    \/ ProcessComplete
    \/ ProcessExcept

SpecProcess == InitProcess /\ [][NextProcess]_vars

(* models.py lines 129-139 *)
is_completed(jb) == jb.status \in {"COMPLETED", "FAILED", "CANCELLED"}
can_cancel(jb) == jb.status \in {"PENDING", "PROCESSING"}

(* C29: process does not raise and does not leave the job pending or     *)
(* processing: when it returns the status is COMPLETED or FAILED,        *)
(* completed_at is set, and a FAILED job has its error_message set       *)
C29_ProcessEndsJob ==
    /\ pc # "process_raised"
    /\ pc = "process_returned" =>
          /\ job.status \in {"COMPLETED", "FAILED"}
          /\ is_completed(job) /\ ~can_cancel(job)
          /\ job.completed_at # "None"
          /\ job.started_at # "None"
          /\ job.status = "FAILED" => job.error_message # "None"
          /\ job.status = "COMPLETED" =>
                job.pages_processed = arg.pages.count

(* the table extraction raised after the text had been extracted: the   *)
(* job failed, with the text blocks already counted                     *)
C29_Witness ==
    /\ pc = "process_returned"
    /\ job.status = "FAILED"
    /\ job.text_blocks_extracted = 1
    /\ job.error_message = ""
    /\ err = <<"">>


-----------------------------------------------------------------------------
(* The file queue of the MainWindow (gui/main_window.py)                   *)
(*                                                                         *)
(* The handlers of the window run on the GUI thread; a ProcessingThread    *)
(* runs beside them, one statement of run() and of process() at a time.    *)
(* A thread emits job_completed or job_failed from inside run(), the       *)
(* signal is queued for the GUI thread, and the thread stays running       *)
(* until run() has returned.  A handler that shows a modal dialog          *)
(* (QMessageBox, QFileDialog) waits in the event loop of the dialog: the   *)
(* handlers of queued signals run there, before the first handler goes     *)
(* on.  Inside cancel_processing the GUI thread runs no event loop: pc     *)
(* is the line it has reached, and only the threads take steps.            *)
(* progress_updated (lines 67-71) moves the progress bar and its label     *)
(* and is left out.                                                        *)

(* Bound: files put on the queue *)
MaxDrops == 2

(* the files a user drops or opens; validate_pdf_file (utils.py lines    *)
(* 32-72) rejects the second                                              *)
Files == {"a.pdf", "broken.pdf"}
ValidPdf(name) == name = "a.pdf"

Running == {t \in 1..Len(threads) : threads[t].running}

(* the GUI thread is in the main event loop: no modal dialog is open and *)
(* the window takes clicks, drops and the close request.  With a dialog  *)
(* open the window takes no input, and the event loop of the dialog      *)
(* still delivers the queued signals of the threads                      *)
Idle == pc = "gui" /\ window.stack = <<>>

(* the program has not ended: its threads take steps *)
Alive == pc \notin {"closed", "aborted"}

(* a line of gui/widgets.py, told from the lines of main_window.py *)
Widgets(line) == 1000 + line

(* the innermost handler that waits, named by the line at which it      *)
(* waits: the line that opened a modal dialog, or line 465 for the call  *)
(* of cancel_processing; the handlers go on innermost first              *)
TopDialog == IF window.stack = <<>> THEN 0 ELSE window.stack[Len(window.stack)]
Open(w, line) == [w EXCEPT !.stack = Append(@, line)]
Closed(w) == [w EXCEPT !.stack = SubSeq(@, 1, Len(@) - 1)]

(* file_queue.extend / append of one file *)
Enqueue(w, name) ==
    [w EXCEPT !.file_queue = Append(@, [name |-> name, drop |-> w.queued + 1]),
              !.queued = @ + 1]

(* lines 397-412: the job and the thread of a valid file; current_job is *)
(* the job of processing_thread, start_progress (widgets.py 154-159)     *)
(* enables the Cancel button; the thread is about to call process()      *)
(* (line 77)                                                             *)
StartThread(w, ths, entry) ==
    /\ window' = [w EXCEPT !.processing_thread = Len(ths) + 1,
                           !.cancel_button = TRUE]
    /\ threads' = Append(ths, [file |-> entry, running |-> TRUE,
                               terminate |-> FALSE, at |-> "process_66",
                               signal |-> "none", job |-> NewJob(TRUE, TRUE),
                               result |-> [made |-> FALSE, copy |-> FALSE,
                                           job |-> NewJob(TRUE, TRUE)]])
    /\ pc' = pc

(* lines 387-412, from the state (w, ths) its caller has reached: an     *)
(* empty queue enables the Start button; an invalid file is taken off    *)
(* and the warning of line 395 opened, the call of line 396 follows when *)
(* it is closed; a valid file is taken off and its thread started.       *)
(* Line 405 drops the only reference to the previous ProcessingThread:   *)
(* when that thread is still running it lives on while its run() holds   *)
(* it, and is destroyed otherwise, which ends the program ("QThread:     *)
(* Destroyed while thread is still running")                             *)
process_next_file(w, ths) ==
    IF w.file_queue = <<>>
    THEN /\ window' = [w EXCEPT !.start_button = TRUE]
         /\ threads' = ths
         /\ pc' = pc
    ELSE LET entry == Head(w.file_queue)
             w1    == [w EXCEPT !.file_queue = Tail(@),
                                !.dequeued = Append(@, entry)]
         IN  IF ~ValidPdf(entry.name)
             THEN /\ window' = Open(w1, 395)
                  /\ threads' = ths
                  /\ pc' = pc
             ELSE \/ StartThread(w1, ths, entry)
                  \/ /\ w.processing_thread # 0
                     /\ ths[w.processing_thread].running
                     /\ window' = w1
                     /\ threads' = ths
                     /\ pc' = "aborted"

InitWindow ==
    /\ pages = <<>>
    /\ page_no = 0
    /\ pc = "gui"
    /\ err = <<>>
    /\ role = <<>>
    /\ init_page_values = InitPageValues
    /\ loc = [f \in HeaderFields |-> Undef]
    /\ block3_other = [defined |-> FALSE, blocks |-> <<>>, src |-> 0]
    /\ df = <<>>
    /\ df_summary = <<>>
    /\ cnt = 0
    /\ j = 0
    /\ rds_idx_offset = 0
    /\ arg = <<>>
    /\ res = Undef
    /\ job = NewJob(TRUE, TRUE)
    /\ window \in {[NewWindow EXCEPT !.copy_on_model_validation = copies] :
                      copies \in BOOLEAN}
    /\ threads = <<>>
    /\ clock = 0
    /\ first_run = Undef

(* the variables the window leaves alone; the jobs of the window are the *)
(* job fields of its threads                                             *)
WindowFrame ==
    UNCHANGED <<pages, page_no, err, role, init_page_values, loc,
                block3_other, df, df_summary, cnt, j, rds_idx_offset, arg,
                res, job, clock, first_run>>

(* lines 371-375, on a drop on the drag and drop box *)
on_files_dropped(name) ==
    /\ Idle
    /\ window.queued < MaxDrops
    /\ window' = [Enqueue(window, name) EXCEPT !.start_button = TRUE]
    /\ UNCHANGED <<threads, pc>>
    /\ WindowFrame

(* lines 364-369, on a drop on the window beside the box *)
dropEvent(name) ==
    /\ Idle
    /\ window.queued < MaxDrops
    /\ window' = [Enqueue(window, name) EXCEPT !.start_button = TRUE]
    /\ UNCHANGED <<threads, pc>>
    /\ WindowFrame

(* lines 336-343: the toolbar's and the menu's Open show the file dialog *)
open_file ==
    /\ Idle
    /\ window' = Open(window, 337)
    /\ UNCHANGED <<threads, pc>>
    /\ WindowFrame

(* lines 348-358, the handler of file_selected *)
on_file_selected(w, name) ==
    IF ValidPdf(name) THEN [w EXCEPT !.start_action = TRUE]
    ELSE Open(w, 357)

(* widgets.py lines 75-79: the path is kept, the Clear button of the    *)
(* file selector enabled and file_selected emitted, whose handler runs   *)
(* at once                                                               *)
set_file_path(w, name) ==
    on_file_selected([w EXCEPT !.file_path = name, !.clear_button = TRUE],
                     name)

(* lines 345-346: the file dialog returns the chosen file, "" when it is *)
(* dismissed                                                             *)
open_file_chosen(name) ==
    /\ pc = "gui"
    /\ TopDialog = 337
    /\ window' = IF name = "" THEN Closed(window)
                 ELSE set_file_path(Closed(window), name)
    /\ UNCHANGED <<threads, pc>>
    /\ WindowFrame

(* line 358, after the warning of line 357 *)
on_file_selected_closed ==
    /\ pc = "gui"
    /\ TopDialog = 357
    /\ window' = [Closed(window) EXCEPT !.start_action = FALSE]
    /\ UNCHANGED <<threads, pc>>
    /\ WindowFrame

(* widgets.py lines 65-72: the Browse button of the file selector shows  *)
(* the file dialog.  Line 196 of main_window.py hides the file selector; *)
(* its two buttons stay connected (widgets.py lines 58 and 61)           *)
browse_file ==
    /\ Idle
    /\ window' = Open(window, Widgets(67))
    /\ UNCHANGED <<threads, pc>>
    /\ WindowFrame

(* widgets.py lines 73-74 *)
browse_file_chosen(name) ==
    /\ pc = "gui"
    /\ TopDialog = Widgets(67)
    /\ window' = IF name = "" THEN Closed(window)
                 ELSE set_file_path(Closed(window), name)
    /\ UNCHANGED <<threads, pc>>
    /\ WindowFrame

(* widgets.py lines 80-83, on a click of the enabled Clear button of the *)
(* file selector                                                         *)
clear_file ==
    /\ Idle
    /\ window.clear_button
    /\ window' = [window EXCEPT !.file_path = "", !.clear_button = FALSE]
    /\ UNCHANGED <<threads, pc>>
    /\ WindowFrame

(* lines 440-442: the menu's Settings shows a message *)
show_settings ==
    /\ Idle
    /\ window' = Open(window, 442)
    /\ UNCHANGED <<threads, pc>>
    /\ WindowFrame

(* the message of line 442 is closed *)
show_settings_closed ==
    /\ pc = "gui"
    /\ TopDialog = 442
    /\ window' = Closed(window)
    /\ UNCHANGED <<threads, pc>>
    /\ WindowFrame

(* lines 444-452: the menu's About shows a message *)
show_about ==
    /\ Idle
    /\ window' = Open(window, 446)
    /\ UNCHANGED <<threads, pc>>
    /\ WindowFrame

(* the message of line 446 is closed *)
show_about_closed ==
    /\ pc = "gui"
    /\ TopDialog = 446
    /\ window' = Closed(window)
    /\ UNCHANGED <<threads, pc>>
    /\ WindowFrame

(* lines 377-385, on a click of the Start button (line 158) or of the    *)
(* toolbar's Start Processing (line 278), whichever is enabled           *)
start_processing(via) ==
    /\ Idle
    /\ window[via]
    /\ IF window.file_queue # <<>>
       THEN process_next_file([window EXCEPT !.start_button = FALSE], threads)
       ELSE IF window.file_path = ""
       THEN /\ window' = Open(window, 381)
            /\ UNCHANGED <<threads, pc>>
       ELSE /\ window.queued < MaxDrops
            /\ process_next_file(
                   [Enqueue(window, window.file_path) EXCEPT
                       !.start_button = FALSE], threads)
    /\ WindowFrame

(* line 382, after the warning of line 381 *)
start_processing_closed ==
    /\ pc = "gui"
    /\ TopDialog = 381
    /\ window' = Closed(window)
    /\ UNCHANGED <<threads, pc>>
    /\ WindowFrame

(* line 396, after the warning of line 395 *)
process_next_file_closed ==
    /\ pc = "gui"
    /\ TopDialog = 395
    /\ process_next_file(Closed(window), threads)
    /\ WindowFrame

(* what a thread of the window finds in its file: one page, one text    *)
(* block and one table, and the text of the exception a call raises      *)
ThreadCount == 1
ThreadException == "boom"

(* PDFProcessor.process (pdf_processor.py lines 60-124 and 172-180) in a *)
(* thread, one statement at a time from the position th.at, which names  *)
(* the line the thread is to execute next: the thread after the          *)
(* statement, one for each thing validate_job (base.py lines 69-89),     *)
(* _get_pages_to_process and the three extractions may do.  The job has  *)
(* the default options: text and tables are both extracted.  A return    *)
(* builds the ProcessingResult and run() (main_window.py line 79) goes   *)
(* on to line 81 with a completed job and to line 85 with any other;     *)
(* the result holds the job itself or, where pydantic copies a model it  *)
(* validates, a copy of it (copies)                                      *)
ProcessStep(th, copies) ==
    LET raised == [th EXCEPT !.at = "process_173"]
        return(position) ==
            [th EXCEPT !.at = position,
                       !.result = [made |-> TRUE, copy |-> copies,
                                   job |-> th.job]]
    IN  CASE th.at = "process_66" ->
                {[th EXCEPT !.at = "process_67",
                            !.job.status = "PROCESSING"]}
          [] th.at = "process_67" ->
                {[th EXCEPT !.at = "process_70", !.job.started_at = "now"]}
          [] th.at = "process_70" ->
                {[th EXCEPT !.at = "process_85"],
                 [th EXCEPT !.at = "process_72"]}
          [] th.at = "process_72" ->
                {[th EXCEPT !.at = "process_73", !.job.status = "FAILED"]}
          [] th.at = "process_73" ->
                {[th EXCEPT !.at = "process_74",
                            !.job.error_message =
                                ValidationMessage["missing"]]}
          [] th.at = "process_74" ->
                {[th EXCEPT !.at = "process_75", !.job.completed_at = "now"]}
          [] th.at = "process_75" -> {return("run_85")}
          [] th.at = "process_85" ->
                {raised,
                 [th EXCEPT !.at = "process_89"],
                 [th EXCEPT !.at = "process_99"]}
          [] th.at = "process_89" ->
                {[th EXCEPT !.at = "process_90", !.job.status = "FAILED"]}
          [] th.at = "process_90" ->
                {[th EXCEPT !.at = "process_91",
                            !.job.error_message = "No pages to process"]}
          [] th.at = "process_91" ->
                {[th EXCEPT !.at = "process_92", !.job.completed_at = "now"]}
          [] th.at = "process_92" -> {return("run_85")}
          [] th.at = "process_99" ->
                {raised, [th EXCEPT !.at = "process_101"]}
          [] th.at = "process_101" ->
                {[th EXCEPT !.at = "process_105",
                            !.job.text_blocks_extracted = ThreadCount]}
          [] th.at = "process_105" ->
                {raised, [th EXCEPT !.at = "process_107"]}
          [] th.at = "process_107" ->
                {[th EXCEPT !.at = "process_110",
                            !.job.tables_extracted = ThreadCount]}
          [] th.at = "process_110" ->
                {raised, [th EXCEPT !.at = "process_113"]}
          [] th.at = "process_113" ->
                {[th EXCEPT !.at = "process_114",
                            !.job.pages_processed = ThreadCount]}
          [] th.at = "process_114" ->
                {[th EXCEPT !.at = "process_115",
                            !.job.status = "COMPLETED"]}
          [] th.at = "process_115" ->
                {[th EXCEPT !.at = "process_119",
                            !.job.completed_at = "now"]}
          [] th.at = "process_119" -> {return("run_81")}
          [] th.at = "process_173" ->
                {[th EXCEPT !.at = "process_174", !.job.status = "FAILED"]}
          [] th.at = "process_174" ->
                {[th EXCEPT !.at = "process_175",
                            !.job.error_message = ThreadException]}
          [] th.at = "process_175" ->
                {[th EXCEPT !.at = "process_177",
                            !.job.completed_at = "now"]}
          [] th.at = "process_177" -> {return("run_85")}

ProcessPositions ==
    {"process_66", "process_67", "process_70", "process_72", "process_73",
     "process_74", "process_75", "process_85", "process_89", "process_90",
     "process_91", "process_92", "process_99", "process_101",
     "process_105", "process_107", "process_110", "process_113",
     "process_114", "process_115", "process_119", "process_173",
     "process_174", "process_175", "process_177"}

(* line 77: the thread executes a statement of process() on its job *)
ThreadProcess(t) ==
    /\ Alive
    /\ threads[t].running
    /\ threads[t].at \in ProcessPositions
    /\ \E th \in ProcessStep(threads[t], window.copy_on_model_validation) :
          threads' = [threads EXCEPT ![t] = th]
    /\ UNCHANGED <<window, pc>>
    /\ WindowFrame

(* lines 81, 82 and 87: the workbook is written (line 81) or             *)
(* write_to_excel raises, and line 82 sets output_file on the job of the *)
(* result, which is the job of the thread unless the result holds a copy *)
ThreadWrite(t, written) ==
    /\ Alive
    /\ threads[t].running
    /\ \/ /\ threads[t].at = "run_81"
          /\ threads' = [threads EXCEPT
                            ![t].at = IF written THEN "run_82" ELSE "run_88"]
       \/ /\ threads[t].at = "run_82"
          /\ written
          /\ threads' =
                [threads EXCEPT
                    ![t].at = "run_83",
                    ![t].result.job.output_file = "written",
                    ![t].job.output_file =
                        IF threads[t].result.copy THEN @ ELSE "written"]
    /\ UNCHANGED <<window, pc>>
    /\ WindowFrame

(* lines 83, 85 and 88: run() emits job_completed for a completed job    *)
(* whose workbook was written, job_failed for a job that is not          *)
(* completed and for a completed job whose workbook could not be         *)
(* written; the signal is queued for the GUI thread                      *)
ThreadEmit(t) ==
    /\ Alive
    /\ threads[t].running
    /\ threads[t].at \in {"run_83", "run_85", "run_88"}
    /\ threads' = [threads EXCEPT
                      ![t].signal = IF threads[t].at = "run_83"
                                    THEN "completed" ELSE "failed",
                      ![t].at = "end"]
    /\ UNCHANGED <<window, pc>>
    /\ WindowFrame

(* run() returns: the thread is no longer running *)
ThreadExit(t) ==
    /\ Alive
    /\ threads[t].running
    /\ threads[t].at = "end"
    /\ threads' = [threads EXCEPT ![t].running = FALSE]
    /\ UNCHANGED <<window, pc>>
    /\ WindowFrame

(* the effect of terminate() (line 417) on a running thread: it is       *)
(* stopped at the statement it has reached, at once or after some more   *)
(* steps                                                                 *)
ThreadTerminated(t) ==
    /\ Alive
    /\ threads[t].running
    /\ threads[t].terminate
    /\ threads' = [threads EXCEPT ![t].running = FALSE]
    /\ UNCHANGED <<window, pc>>
    /\ WindowFrame

(* lines 427-431; complete_progress (widgets.py 164-168) disables the    *)
(* Cancel button                                                         *)
on_job_completed(t) ==
    /\ pc = "gui"
    /\ threads[t].signal = "completed"
    /\ process_next_file([window EXCEPT !.cancel_button = FALSE],
                         [threads EXCEPT ![t].signal = "delivered"])
    /\ WindowFrame

(* lines 433-437: stop_progress (widgets.py 160-163) disables the Cancel *)
(* button, then the error dialog opens                                   *)
on_job_failed(t) ==
    /\ pc = "gui"
    /\ threads[t].signal = "failed"
    /\ window' = Open([window EXCEPT !.cancel_button = FALSE], 437)
    /\ threads' = [threads EXCEPT ![t].signal = "delivered"]
    /\ pc' = pc
    /\ WindowFrame

(* line 438, after the dialog of line 437 *)
on_job_failed_closed ==
    /\ pc = "gui"
    /\ TopDialog = 437
    /\ process_next_file(Closed(window), threads)
    /\ WindowFrame

(* line 416, read by cancel_processing and line 456, read by closeEvent *)
isRunning(w, ths) ==
    w.processing_thread # 0 /\ ths[w.processing_thread].running

(* lines 420-425, after the wait of line 418: current_job, the job of    *)
(* the thread the window refers to, is marked CANCELLED whatever process *)
(* had made of it, stop_progress (widgets.py 160-163) disables the       *)
(* Cancel button and the toolbar's Start Processing is enabled           *)
Cancelled(w, ths) ==
    LET th == ths[w.processing_thread]
    IN  [window  |-> [w EXCEPT !.cancel_button = FALSE,
                               !.start_action = TRUE],
         threads |-> [ths EXCEPT
                         ![w.processing_thread].job.status = "CANCELLED",
                         ![w.processing_thread].result.job.status =
                             IF th.result.made /\ ~th.result.copy
                             THEN "CANCELLED" ELSE @]]

(* line 416, on a click of the Cancel button of the progress widget      *)
(* (line 201): nothing more is done unless the thread the window refers  *)
(* to is running                                                         *)
cancel_processing ==
    /\ Idle
    /\ window.cancel_button
    /\ pc' = IF isRunning(window, threads) THEN "cancel_417" ELSE pc
    /\ UNCHANGED <<window, threads>>
    /\ WindowFrame

(* line 417: terminate() asks for the end of the thread, and does        *)
(* nothing to a thread that has finished since line 416                  *)
cancel_terminate ==
    /\ pc = "cancel_417"
    /\ threads' = [threads EXCEPT
                      ![window.processing_thread].terminate =
                          threads[window.processing_thread].running]
    /\ pc' = "cancel_418"
    /\ UNCHANGED window
    /\ WindowFrame

(* line 418: wait() returns when the thread has finished *)
cancel_wait ==
    /\ pc = "cancel_418"
    /\ ~threads[window.processing_thread].running
    /\ pc' = "cancel_420"
    /\ UNCHANGED <<window, threads>>
    /\ WindowFrame

(* lines 420-425, then the return: to the event loop, or to line 466 of  *)
(* closeEvent, which accepts the close                                   *)
cancel_finish ==
    /\ pc = "cancel_420"
    /\ threads' = Cancelled(window, threads).threads
    /\ IF TopDialog = 465
       THEN /\ window' = Closed(Cancelled(window, threads).window)
            /\ pc' = "closed"
       ELSE /\ window' = Cancelled(window, threads).window
            /\ pc' = "gui"
    /\ WindowFrame

(* lines 454-462 and 469-470: closing the window asks first while the    *)
(* thread is running                                                     *)
closeEvent ==
    /\ Idle
    /\ IF isRunning(window, threads)
       THEN window' = Open(window, 456) /\ pc' = pc
       ELSE window' = window /\ pc' = "closed"
    /\ UNCHANGED threads
    /\ WindowFrame

(* lines 464-468: the answer to the question of line 456; Yes calls      *)
(* cancel_processing (line 465), which reads isRunning again (line 416)  *)
(* and goes on as after a click on Cancel                                *)
closeEvent_reply(yes) ==
    /\ pc = "gui"
    /\ TopDialog = 456
    /\ IF ~yes
       THEN window' = Closed(window) /\ pc' = pc
       ELSE IF isRunning(window, threads)
       THEN window' = Open(Closed(window), 465) /\ pc' = "cancel_417"
       ELSE window' = Closed(window) /\ pc' = "closed"
    /\ UNCHANGED threads
    /\ WindowFrame

NextWindow ==
    \/ \E name \in Files : on_files_dropped(name)
    \/ \E name \in Files : dropEvent(name)
    \/ open_file
    \/ \E name \in Files \cup {""} : open_file_chosen(name)
    \/ on_file_selected_closed
    \/ browse_file
    \/ \E name \in Files \cup {""} : browse_file_chosen(name)
    \/ clear_file
    \/ show_settings
    \/ show_settings_closed
    \/ show_about
    \/ show_about_closed
    \/ \E via \in {"start_button", "start_action"} : start_processing(via)
    \/ start_processing_closed
    \/ process_next_file_closed
    \/ \E t \in 1..Len(threads) : ThreadProcess(t)
    \/ \E t \in 1..Len(threads) :
          \E written \in BOOLEAN : ThreadWrite(t, written)
    \/ \E t \in 1..Len(threads) : ThreadEmit(t)
    \/ \E t \in 1..Len(threads) : ThreadExit(t)
    \/ \E t \in 1..Len(threads) : ThreadTerminated(t)
    \/ \E t \in 1..Len(threads) : on_job_completed(t)
    \/ \E t \in 1..Len(threads) : on_job_failed(t)
    \/ on_job_failed_closed
    \/ cancel_processing
    \/ cancel_terminate
    \/ cancel_wait
    \/ cancel_finish
    \/ closeEvent
    \/ \E yes \in BOOLEAN : closeEvent_reply(yes)

SpecWindow == InitWindow /\ [][NextWindow]_vars

(* C30: at most one ProcessingThread is running at any time, whatever   *)
(* the order of drops, clicks on Start, completions, failures and       *)
(* cancels, and no queue entry is taken off the queue twice             *)
C30_OneThreadRunning ==
    /\ Cardinality(Running) <= 1
    /\ \A a, b \in 1..Len(window.dequeued) :
          a # b => window.dequeued[a].drop # window.dequeued[b].drop

====
